---- MODULE Spec2Model ----
(***************************************************************************)
(* A model of the vision bytecode VM (src/vm) : values, heap objects, the  *)
(* open-addressing Table, string interning and the interpreter loop.       *)
(*                                                                         *)
(* Pointers are indices into `heap` (0 is the null pointer).  A Value is   *)
(* the pair {ty, repr} of src/vm/src/value.rs; repr holds the boolean (0/1)*)
(* the number, or the object pointer.  Strings are sequences of character  *)
(* codes; 0 is the NUL that StringObject::new appends.                     *)
(***************************************************************************)
EXTENDS Integers, Sequences, FiniteSets, TLC

VARIABLES
    heap,       \* every heap object ever allocated, by pointer
    strings,    \* the string-intern Table
    table,      \* a Table driven directly by set/get/delete calls
    shadow,     \* history: key -> the value of its last set not yet deleted
    ret,        \* the last call or instruction and what it returned
    vm,         \* the VM: stack, frames, globals, open upvalues, run status
    program     \* the program being run, as the compiler resolved it

vars == <<heap, strings, table, shadow, ret, vm, program>>

-----------------------------------------------------------------------------
(* Bounds of the model *)

NumKeys == 3        \* keys the Table specification draws from
NumVals == 2        \* values the Table specification stores
MaxArity == 2       \* most parameters of the functions called with any argument count
MaxParams == 7      \* most parameters of the function that recurses without end

(* Program constants *)

HashBits == 8       \* the low bits of the hash the model keeps (see hash_string)

-----------------------------------------------------------------------------
(* Values: src/vm/src/value.rs *)

Nil == [ty |-> "Nil", repr |-> 0]
BoolV(b) == [ty |-> "Bool", repr |-> IF b THEN 1 ELSE 0]
NumberV(n) == [ty |-> "Number", repr |-> n]
ObjectV(p) == [ty |-> "Object", repr |-> p]

is_nil(v) == v.ty = "Nil"
is_bool(v) == v.ty = "Bool"
is_number(v) == v.ty = "Number"
is_obj(v) == v.ty = "Object"
as_bool(v) == v.repr = 1
as_obj(v) == v.repr

\* (a variant: the number 0 counts as false too)
is_falsey_or_zero(v) == is_nil(v) \/ (~is_obj(v) /\ v.repr = 0)

is_falsey(v) == is_nil(v) \/ (is_bool(v) /\ ~as_bool(v))

\* (a variant: the payloads are compared whatever the tags)
ValueEqUntagged(a, b) == a.repr = b.repr

\* impl PartialEq for Value
ValueEq(a, b) ==
    IF a.ty # b.ty THEN FALSE
    ELSE IF a.ty = "Nil" THEN TRUE
    ELSE a.repr = b.repr

None == [some |-> FALSE, val |-> Nil]
Some(v) == [some |-> TRUE, val |-> v]

-----------------------------------------------------------------------------
(* hash_string: FNV-1a over the characters, in usize wrapping arithmetic.  *)
(* xor and multiplication are closed modulo 2^k, so the low HashBits bits  *)
(* of the 64-bit hash are computed exactly from the low bits of the basis  *)
(* (2166136261 % 256 = 197) and of the prime (16777619 % 256 = 147).  The  *)
(* Table only ever uses hash % capacity with capacity a power of two.      *)

HashMod == 2 ^ HashBits
FnvBasisLow == 197
FnvPrimeLow == 147

RECURSIVE Xor(_, _)
Xor(a, b) ==
    IF a = 0 THEN b
    ELSE IF b = 0 THEN a
    ELSE (((a % 2) + (b % 2)) % 2) + 2 * Xor(a \div 2, b \div 2)

RECURSIVE HashFrom(_, _, _)
HashFrom(h, s, i) ==
    IF i > Len(s) THEN h
    ELSE HashFrom((Xor(h, s[i]) * FnvPrimeLow) % HashMod, s, i + 1)

hash_string(s) == HashFrom(FnvBasisLow % HashMod, s, 1)

-----------------------------------------------------------------------------
(* Table: src/vm/src/table.rs *)

NoKey == 0          \* Option<RawObject>::None
NoSlot == -1        \* Option<usize>::None, and a probe loop that never returns

EntryNew == [key |-> NoKey, value |-> Nil]
TableNew == [entries |-> <<>>, count |-> 0, capacity |-> 0]

\* The loop of find_entry_slot at `index`, after `n` probes.  After `capacity`
\* probes the loop has seen every slot and keeps the tombstone memory it has,
\* so it never returns: the result is NoSlot.
RECURSIVE ProbeFrom(_, _, _, _, _, _, _)
ProbeFrom(h, entries, capacity, key, index, tombstone, n) ==
    IF n >= capacity THEN NoSlot
    ELSE LET entry == entries[index + 1] IN
         IF entry.key = NoKey
         THEN IF is_nil(entry.value)
              THEN (IF tombstone # NoSlot THEN tombstone ELSE index)
              ELSE ProbeFrom(h, entries, capacity, key, (index + 1) % capacity,
                             IF tombstone = NoSlot THEN index ELSE tombstone, n + 1)
         ELSE IF entry.key = key
              THEN index
              ELSE ProbeFrom(h, entries, capacity, key, (index + 1) % capacity,
                             tombstone, n + 1)

find_entry_slot(h, entries, capacity, key) ==
    ProbeFrom(h, entries, capacity, key, h[key].hash % capacity, NoSlot, 0)

\* The drain of adjust_capacity: old entries in index order, from entry i.
RECURSIVE Rehash(_, _, _, _, _)
Rehash(h, old, i, new_entries, count) ==
    IF i > Len(old) THEN [entries |-> new_entries, count |-> count]
    ELSE IF old[i].key = NoKey THEN Rehash(h, old, i + 1, new_entries, count)
    ELSE LET dest == find_entry_slot(h, new_entries, Len(new_entries), old[i].key)
         IN Rehash(h, old, i + 1, [new_entries EXCEPT ![dest + 1] = old[i]], count + 1)

\* (a variant: count is not reset before the entries are re-inserted)
adjust_capacity_counting_on(h, t, new_capacity) ==
    LET r == Rehash(h, t.entries, 1, [i \in 1..new_capacity |-> EntryNew], t.count)
    IN [entries |-> r.entries, count |-> r.count, capacity |-> new_capacity]

adjust_capacity(h, t, new_capacity) ==
    LET r == Rehash(h, t.entries, 1, [i \in 1..new_capacity |-> EntryNew], 0)
    IN [entries |-> r.entries, count |-> r.count, capacity |-> new_capacity]

\* (count + 1) as f64 > capacity as f64 * 0.75, exact in integers
OverLoad(t) == 4 * (t.count + 1) > 3 * t.capacity

MIN_CAPACITY == 8
GrowTo(t) == IF t.capacity < MIN_CAPACITY THEN MIN_CAPACITY ELSE t.capacity * 2

\* Table::set.  The result is [table, result, hung]; hung when the probe loops.
\* StoreAt is the store into the slot found, in the table grown if need be.
StoreAt(t, slot, key, value) ==
    IF slot = NoSlot THEN [table |-> t, result |-> FALSE, hung |-> TRUE]
    ELSE LET entry == t.entries[slot + 1]
             is_new_key == entry.key = NoKey
             count == IF is_new_key /\ is_nil(entry.value)
                      THEN t.count + 1 ELSE t.count
         IN [table |-> [t EXCEPT !.entries[slot + 1] = [key |-> key, value |-> value],
                                 !.count = count],
             result |-> is_new_key, hung |-> FALSE]

SetIn(h, t, key, value) ==
    StoreAt(t, find_entry_slot(h, t.entries, t.capacity, key), key, value)

TableSet(h, t0, key, value) ==
    SetIn(h, IF OverLoad(t0) THEN adjust_capacity(h, t0, GrowTo(t0)) ELSE t0, key, value)

\* Table::get.  The result is [result: Option<Value>, hung].
TableGet(h, t, key) ==
    IF t.count = 0 THEN [result |-> None, hung |-> FALSE]
    ELSE LET slot == find_entry_slot(h, t.entries, t.capacity, key) IN
         IF slot = NoSlot THEN [result |-> None, hung |-> TRUE]
         ELSE IF t.entries[slot + 1].key = NoKey THEN [result |-> None, hung |-> FALSE]
         ELSE [result |-> Some(t.entries[slot + 1].value), hung |-> FALSE]

\* Table::delete.  The result is [table, result, hung].
TableDelete(h, t, key) ==
    IF t.count = 0 THEN [table |-> t, result |-> FALSE, hung |-> FALSE]
    ELSE LET slot == find_entry_slot(h, t.entries, t.capacity, key) IN
         IF slot = NoSlot THEN [table |-> t, result |-> FALSE, hung |-> TRUE]
         ELSE IF t.entries[slot + 1].key = NoKey
              THEN [table |-> t, result |-> FALSE, hung |-> FALSE]
              ELSE [table |-> [t EXCEPT !.entries[slot + 1] =
                                           [key |-> NoKey, value |-> BoolV(FALSE)],
                                        !.count = t.count - 1],
                    result |-> TRUE, hung |-> FALSE]

\* The loop of Table::find_string at `index`, after `n` probes; NoSlot when it
\* never returns, otherwise Option<RawObject> as a key or NoKey.
RECURSIVE FindStringFrom(_, _, _, _, _, _)
FindStringFrom(h, t, buffer, hash, index, n) ==
    IF n >= t.capacity THEN NoSlot
    ELSE LET entry == t.entries[index + 1] IN
         IF entry.key # NoKey
         THEN IF h[entry.key].hash = hash /\ h[entry.key].chars = buffer
              THEN entry.key
              ELSE FindStringFrom(h, t, buffer, hash, (index + 1) % t.capacity, n + 1)
         ELSE IF is_nil(entry.value)
              THEN NoKey
              ELSE FindStringFrom(h, t, buffer, hash, (index + 1) % t.capacity, n + 1)

find_string(h, t, buffer, hash) ==
    IF t.count = 0 THEN NoKey
    ELSE FindStringFrom(h, t, buffer, hash, hash % t.capacity, 0)

-----------------------------------------------------------------------------
(* Strings: src/vm/src/object.rs *)

NUL == 0

StringObject(chars, hash) ==
    [ty |-> "String", chars |-> chars, hash |-> hash, length |-> Len(chars)]

\* StringObject::new: the content is copied with a NUL appended, looked up in
\* the intern table and, when absent, allocated and interned with value nil.
\* The result is [heap, table, ptr, hung].
\* (a variant: StringObject::new without the lookup, every call allocates)
StringNewFresh(h, t, string) ==
    LET buffer == Append(string, NUL)
        h2 == Append(h, StringObject(buffer, hash_string(buffer)))
        r == TableSet(h2, t, Len(h2), Nil)
    IN [heap |-> h2, table |-> r.table, ptr |-> Len(h2), hung |-> r.hung]

Interned(h2, r) == [heap |-> h2, table |-> r.table, ptr |-> Len(h2), hung |-> r.hung]

StringNew(h, t, string) ==
    LET buffer == Append(string, NUL)
        hash == hash_string(buffer)
        interned == find_string(h, t, buffer, hash)
        h2 == Append(h, StringObject(buffer, hash))
    IN IF interned = NoSlot THEN [heap |-> h, table |-> t, ptr |-> 0, hung |-> TRUE]
       ELSE IF interned # NoKey
       THEN [heap |-> h, table |-> t, ptr |-> interned, hung |-> FALSE]
       ELSE Interned(h2, TableSet(h2, t, Len(h2), Nil))

\* (a variant: from_owned that interns what it allocates)
StringFromOwnedInterned(h, t, chars) ==
    IF find_string(h, t, chars, hash_string(chars)) = NoSlot
    THEN [heap |-> h, table |-> t, ptr |-> 0, hung |-> TRUE]
    ELSE IF find_string(h, t, chars, hash_string(chars)) # NoKey
    THEN [heap |-> h, table |-> t, ptr |-> find_string(h, t, chars, hash_string(chars)),
          hung |-> FALSE]
    ELSE Interned(Append(h, StringObject(chars, hash_string(chars))),
                  TableSet(Append(h, StringObject(chars, hash_string(chars))), t,
                           Len(h) + 1, Nil))

\* StringObject::from_owned: the content is taken as given, looked up in the
\* intern table and, when absent, allocated without being interned.
StringFromOwned(h, t, chars) ==
    LET hash == hash_string(chars)
        interned == find_string(h, t, chars, hash)
    IN IF interned = NoSlot THEN [heap |-> h, table |-> t, ptr |-> 0, hung |-> TRUE]
       ELSE IF interned # NoKey
       THEN [heap |-> h, table |-> t, ptr |-> interned, hung |-> FALSE]
       ELSE LET h2 == Append(h, StringObject(chars, hash))
            IN [heap |-> h2, table |-> t, ptr |-> Len(h2), hung |-> FALSE]

-----------------------------------------------------------------------------
(* Heap objects other than strings: src/vm/src/object.rs, chunk.rs         *)

Chunk(code, constants) ==
    [code |-> code, constants |-> constants, lines |-> [i \in 1..Len(code) |-> 1]]

FunctionObject(name, arity, upvalue_count, chunk) ==
    [ty |-> "Function", arity |-> arity, chunk |-> chunk,
     upvalue_count |-> upvalue_count, name |-> name]

NativeObject == [ty |-> "Native"]

\* ClosureObject::new: one None per upvalue of the function
ClosureObject(h, function) ==
    [ty |-> "Closure", function |-> function,
     upvalues |-> [i \in 1..h[function].upvalue_count |-> 0],
     upvalue_count |-> h[function].upvalue_count]

\* The upvalue object as src/vm/src/vm.rs uses it: `location` is a Value
\* (capture_value is handed the captured slot's value, GET_UPVALUE pushes
\* location, SET_UPVALUE assigns a Value to it), `closed` a Value and `next`
\* the link of the open-upvalues list.
UpValueObject(location, next) ==
    [ty |-> "UpValue", location |-> location, closed |-> Nil, next |-> next]

is_obj_type(h, v, ty) == is_obj(v) /\ h[as_obj(v)].ty = ty
is_string(h, v) == is_obj_type(h, v, "String")

-----------------------------------------------------------------------------
(* The instruction set.  src/vm/src/op.rs is not among the sources; the    *)
(* byte values follow the order of the disassembler's match.               *)

Op == [OP_RETURN |-> 0, OP_CONSTANT |-> 1, OP_NEGATE |-> 2, OP_ADD |-> 3, OP_SUBTRACT |-> 4,
       OP_MULTIPLY |-> 5, OP_DIVIDE |-> 6, OP_NIL |-> 7, OP_TRUE |-> 8, OP_FALSE |-> 9,
       OP_NOT |-> 10, OP_EQUAL |-> 11, OP_GREATER |-> 12, OP_LESS |-> 13, OP_PRINT |-> 14,
       OP_POP |-> 15, OP_DEFINE_GLOBAL |-> 16, OP_GET_GLOBAL |-> 17, OP_SET_GLOBAL |-> 18,
       OP_GET_LOCAL |-> 19, OP_SET_LOCAL |-> 20, OP_JUMP |-> 21, OP_JUMP_IF_FALSE |-> 22,
       OP_LOOP |-> 23, OP_CALL |-> 24, OP_CLOSURE |-> 25, OP_GET_UPVALUE |-> 26,
       OP_SET_UPVALUE |-> 27, OP_CLOSE_UPVALUE |-> 28]

-----------------------------------------------------------------------------
(* The VM: src/vm/src/vm.rs.  The operand stack is kept as the sequence of *)
(* its first stack_top slots; slots above stack_top are never read by the  *)
(* instructions modelled.                                                  *)

FRAMES_MAX == 64
U8_BITS == 8
STACK_MAX == FRAMES_MAX * U8_BITS

stack_top(v) == Len(v.stack)

\* frame!(vm) and what it refers to
CurFrame(v) == v.frames[v.frame_count]
FrameFunction(h, f) == h[h[f.closure].function]
CurChunk(h, v) == FrameFunction(h, CurFrame(v)).chunk

\* the byte k places after ip (read_byte!, read_short! advance ip past them)
ByteAt(h, v, k) == CurChunk(h, v).code[CurFrame(v).ip + k + 1]
ConstantAt(h, v, k) == CurChunk(h, v).constants[ByteAt(h, v, k) + 1]
AdvanceIp(v, n) == [v EXCEPT !.frames[v.frame_count].ip = @ + n]

\* VM::push: an index past the array is a panic
Push(v, val) ==
    IF v.status # "running" THEN v
    ELSE IF stack_top(v) >= STACK_MAX THEN [v EXCEPT !.status = "panic"]
    ELSE [v EXCEPT !.stack = Append(@, val)]

\* VM::peek and VM::pop (n values at once)
Peek(v, distance) == v.stack[stack_top(v) - distance]
PopN(v, n) == [v EXCEPT !.stack = SubSeq(@, 1, Len(@) - n)]

\* runtime_error!: the message, then one trace line per frame below
\* frame_count, each reading chunk.lines[frame.ip]; an index past the
\* line table is a panic before reset_stack is reached.
TraceReadable(h, v, i) ==
    v.frames[i].ip < Len(FrameFunction(h, v.frames[i]).chunk.lines)

Message(msg, expected, got) == [msg |-> msg, expected |-> expected, got |-> got]
NoMessage == Message("", 0, 0)

ErrorWith(h, v, err) ==
    IF \A i \in 1..v.frame_count : TraceReadable(h, v, i)
    THEN [v EXCEPT !.status = "error", !.err = err, !.stack = <<>>]
    ELSE [v EXCEPT !.status = "panic", !.err = err]

RuntimeError(h, v, msg) == ErrorWith(h, v, Message(msg, 0, 0))

\* The open-upvalues list from `head`, as a sequence of pointers
RECURSIVE OpenList(_, _)
OpenList(h, head) ==
    IF head = 0 THEN <<>> ELSE <<head>> \o OpenList(h, h[head].next)

\* VM::close_upvalue.  The loop compares the address of the head upvalue's
\* location field with the address of a stack slot; the order of a heap
\* address and an address inside the VM depends on where the allocator and
\* the VM's owner put them, so the number k of upvalues the loop unlinks is
\* any prefix of the list.  Result: [heap, vm].
RECURSIVE close_upvalue(_, _, _)
close_upvalue(h, v, k) ==
    IF k = 0 \/ v.open_upvalues = 0 THEN [heap |-> h, vm |-> v]
    ELSE LET upvalue == v.open_upvalues
             h2 == [h EXCEPT ![upvalue].closed = h[upvalue].location]
         IN close_upvalue(h2, [v EXCEPT !.open_upvalues = h[upvalue].next], k - 1)

\* VM::capture_value.  The while loop compares the address of each open
\* upvalue's location field with the address of the parameter `local`; it
\* walks past any k upvalues of the list.  The upvalue it stops at is reused
\* when its location equals `local` as a Value.  Result: [heap, vm, ptr].
capture_value(h, v, local, k) ==
    LET list == OpenList(h, v.open_upvalues)
        n == IF k < Len(list) THEN k ELSE Len(list)
        prev_upvalue == IF n = 0 THEN 0 ELSE list[n]
        upvalue == IF n < Len(list) THEN list[n + 1] ELSE 0
    IN IF upvalue # 0 /\ ValueEq(h[upvalue].location, local)
       THEN [heap |-> h, vm |-> v, ptr |-> upvalue]
       ELSE LET h2 == Append(h, UpValueObject(local, upvalue))
                created == Len(h2)
            IN IF prev_upvalue = 0
               THEN [heap |-> h2, vm |-> [v EXCEPT !.open_upvalues = created],
                     ptr |-> created]
               ELSE [heap |-> [h2 EXCEPT ![prev_upvalue].next = created],
                     vm |-> v, ptr |-> created]

\* VM::call
call(h, v, callee, arg_count) ==
    IF v.frame_count = FRAMES_MAX THEN RuntimeError(h, v, "Stack overflow.")
    ELSE LET v2 == [v EXCEPT !.frame_count = @ + 1] IN
         IF arg_count # h[h[callee].function].arity
         THEN ErrorWith(h, v2, Message("Expected arguments but got",
                                       h[h[callee].function].arity, arg_count))
         ELSE [v2 EXCEPT !.frames[v2.frame_count] =
                   [closure |-> callee, ip |-> 0,
                    slots |-> stack_top(v) - arg_count - 1]]

\* (a variant: a native call leaves the callee below its result)
call_value_keeps_callee(h, v, callee, arg_count, clock) ==
    IF is_obj_type(h, callee, "Closure") THEN call(h, v, as_obj(callee), arg_count)
    ELSE IF is_obj_type(h, callee, "Native")
    THEN Push(PopN(v, arg_count), clock)
    ELSE RuntimeError(h, v, "Can only call functions and classes.")

\* VM::call_value; `clock` is what a native call returns
call_value(h, v, callee, arg_count, clock) ==
    IF is_obj_type(h, callee, "Closure") THEN call(h, v, as_obj(callee), arg_count)
    ELSE IF is_obj_type(h, callee, "Native")
    THEN Push(PopN(v, arg_count + 1), clock)
    ELSE RuntimeError(h, v, "Can only call functions and classes.")

\* (a variant: the right operand's content first)
concatenate_swapped(h, t, v) ==
    LET b == h[as_obj(Peek(v, 0))].chars
        a == h[as_obj(Peek(v, 1))].chars
        new_string == SubSeq(b, 1, Len(b) - 1) \o SubSeq(a, 1, Len(a) - 1) \o <<NUL>>
        r == StringFromOwned(h, t, new_string)
    IN [heap |-> r.heap, vm |-> Push(PopN(v, 2), ObjectV(r.ptr)), table |-> r.table]

\* VM::concatenate.  Result: [heap, vm, table], table being self.strings
\* as from_owned leaves it.
concatenate(h, t, v) ==
    LET b == h[as_obj(Peek(v, 0))].chars
        a == h[as_obj(Peek(v, 1))].chars
        new_string == SubSeq(a, 1, Len(a) - 1) \o SubSeq(b, 1, Len(b) - 1) \o <<NUL>>
        r == StringFromOwned(h, t, new_string)
    IN [heap |-> r.heap, vm |-> Push(PopN(v, 2), ObjectV(r.ptr)), table |-> r.table]

-----------------------------------------------------------------------------
(* The arms of VM::run.  Each takes the heap and the VM at the fetch of its *)
(* opcode and gives [heap, vm] after the instruction; ip is advanced past  *)
(* the opcode and its operands first, as read_byte! does.                  *)

HV(h, v) == [heap |-> h, vm |-> v]

\* (a variant: the stack is cut above the callee, not at it)
ExecReturnAboveCallee(h, v0, k) ==
    LET v == AdvanceIp(v0, 1)
        result == Peek(v, 0)
        slot == CurFrame(v).slots
        r == close_upvalue(h, PopN(v, 1), k)
        v2 == [r.vm EXCEPT !.frame_count = @ - 1]
    IN IF v2.frame_count = 0
       THEN HV(r.heap, [PopN(v2, 1) EXCEPT !.status = "ok"])
       ELSE HV(r.heap, Push([v2 EXCEPT !.stack = SubSeq(@, 1, slot + 1)], result))

\* Op::RETURN; k: see close_upvalue
ExecReturn(h, v0, k) ==
    LET v == AdvanceIp(v0, 1)
        result == Peek(v, 0)
        slot == CurFrame(v).slots
        r == close_upvalue(h, PopN(v, 1), k)
        v2 == [r.vm EXCEPT !.frame_count = @ - 1]
    IN IF v2.frame_count = 0
       THEN HV(r.heap, [PopN(v2, 1) EXCEPT !.status = "ok"])
       ELSE HV(r.heap, Push([v2 EXCEPT !.stack = SubSeq(@, 1, slot)], result))

\* Op::NEGATE
ExecNegate(h, v0) ==
    LET v == AdvanceIp(v0, 1) IN
    IF ~is_number(Peek(v, 0))
    THEN HV(h, RuntimeError(h, v, "Operand must be a number."))
    ELSE HV(h, Push(PopN(v, 1), NumberV(0 - Peek(v, 0).repr)))

\* Op::CONSTANT
ExecConstant(h, v0) ==
    LET v == AdvanceIp(v0, 2) IN HV(h, Push(v, ConstantAt(h, v0, 1)))

\* a $op b of binary_op!, on numbers; DIVIDE is exact on the operands drawn
Arith(op, a, b) ==
    CASE op = Op.OP_SUBTRACT -> NumberV(a - b)
      [] op = Op.OP_MULTIPLY -> NumberV(a * b)
      [] op = Op.OP_DIVIDE -> NumberV(a \div b)
      [] op = Op.OP_GREATER -> BoolV(a > b)
      [] op = Op.OP_LESS -> BoolV(a < b)

\* (a variant: only the top operand is checked)
ExecBinaryTopOnly(h, v0, op) ==
    LET v == AdvanceIp(v0, 1) IN
    IF ~is_number(Peek(v, 0))
    THEN HV(h, RuntimeError(h, v, "operands must be numbers"))
    ELSE HV(h, Push(PopN(v, 2), Arith(op, Peek(v, 1).repr, Peek(v, 0).repr)))

\* binary_op!: Op::GREATER, LESS, SUBTRACT, MULTIPLY, DIVIDE
ExecBinary(h, v0, op) ==
    LET v == AdvanceIp(v0, 1) IN
    IF ~is_number(Peek(v, 0)) \/ ~is_number(Peek(v, 1))
    THEN HV(h, RuntimeError(h, v, "operands must be numbers"))
    ELSE LET b == Peek(v, 0).repr
             a == Peek(v, 1).repr
         IN HV(h, Push(PopN(v, 2), Arith(op, a, b)))

\* Op::ADD.  Result: [heap, vm, table].
ExecAdd(h, t, v0) ==
    LET v == AdvanceIp(v0, 1) IN
    IF is_string(h, Peek(v, 0)) /\ is_string(h, Peek(v, 1))
    THEN concatenate(h, t, v)
    ELSE IF is_number(Peek(v, 0)) /\ is_number(Peek(v, 1))
    THEN LET b == Peek(v, 0)
             a == Peek(v, 1)
         IN [heap |-> h, vm |-> Push(PopN(v, 2), NumberV(a.repr + b.repr)), table |-> t]
    ELSE [heap |-> h,
          vm |-> RuntimeError(h, v, "Operands must be two numbers or two strings."),
          table |-> t]

\* Op::NIL, Op::TRUE, Op::FALSE
ExecLiteral(h, v0, val) == HV(h, Push(AdvanceIp(v0, 1), val))

\* Op::NOT
ExecNot(h, v0) ==
    LET v == AdvanceIp(v0, 1) IN
    HV(h, Push(PopN(v, 1), BoolV(is_falsey(Peek(v, 0)))))

\* Op::EQUAL
ExecEqual(h, v0) ==
    LET v == AdvanceIp(v0, 1)
        b == Peek(v, 0)
        a == Peek(v, 1)
    IN HV(h, Push(PopN(v, 2), BoolV(ValueEq(a, b))))

\* Op::PRINT: the value popped goes to the output
ExecPrint(h, v0) ==
    LET v == AdvanceIp(v0, 1)
    IN HV(h, [PopN(v, 1) EXCEPT !.out = Append(@, Peek(v, 0))])

\* Op::POP
ExecPop(h, v0) == HV(h, PopN(AdvanceIp(v0, 1), 1))

\* a Table call that never returns leaves the run hung
Hung(v) == [v EXCEPT !.status = "hung"]

\* Op::DEFINE_GLOBAL
ExecDefineGlobal(h, v0) ==
    LET v == AdvanceIp(v0, 2)
        name == as_obj(ConstantAt(h, v0, 1))
        r == TableSet(h, v.globals, name, Peek(v, 0))
    IN IF r.hung THEN HV(h, Hung(v))
       ELSE HV(h, PopN([v EXCEPT !.globals = r.table], 1))

\* Op::GET_GLOBAL
ExecGetGlobal(h, v0) ==
    LET v == AdvanceIp(v0, 2)
        obj_ptr == as_obj(ConstantAt(h, v0, 1))
        val == TableGet(h, v.globals, obj_ptr)
    IN IF val.hung THEN HV(h, Hung(v))
       ELSE IF ~val.result.some THEN HV(h, RuntimeError(h, v, "Undefined variable"))
       ELSE HV(h, Push(v, val.result.val))

\* (a variant: the entry a failed SET_GLOBAL made is not deleted)
ExecSetGlobalKeeping(h, v0) ==
    LET v == AdvanceIp(v0, 2)
        obj_ptr == as_obj(ConstantAt(h, v0, 1))
        r == TableSet(h, v.globals, obj_ptr, Peek(v, 0))
    IN IF r.hung THEN HV(h, Hung(v))
       ELSE IF r.result
       THEN HV(h, RuntimeError(h, [v EXCEPT !.globals = r.table], "Undefined variable"))
       ELSE HV(h, [v EXCEPT !.globals = r.table])

\* Op::SET_GLOBAL
ExecSetGlobal(h, v0) ==
    LET v == AdvanceIp(v0, 2)
        obj_ptr == as_obj(ConstantAt(h, v0, 1))
        r == TableSet(h, v.globals, obj_ptr, Peek(v, 0))
        d == TableDelete(h, r.table, obj_ptr)
    IN IF r.hung THEN HV(h, Hung(v))
       ELSE IF r.result
       THEN (IF d.hung THEN HV(h, Hung(v))
             ELSE HV(h, RuntimeError(h, [v EXCEPT !.globals = d.table],
                                     "Undefined variable")))
       ELSE HV(h, [v EXCEPT !.globals = r.table])

\* Op::GET_LOCAL
ExecGetLocal(h, v0) ==
    LET v == AdvanceIp(v0, 2)
        index == CurFrame(v).slots + ByteAt(h, v0, 1)
    IN HV(h, Push(v, v.stack[index + 1]))

\* Op::SET_LOCAL
ExecSetLocal(h, v0) ==
    LET v == AdvanceIp(v0, 2)
        index == CurFrame(v).slots + ByteAt(h, v0, 1)
    IN HV(h, [v EXCEPT !.stack[index + 1] = Peek(v, 0)])

\* Op::CALL
ExecCall(h, v0, clock) ==
    LET v == AdvanceIp(v0, 2)
        arg_count == ByteAt(h, v0, 1)
    IN HV(h, call_value(h, v, Peek(v, arg_count), arg_count, clock))

\* The loop of Op::CLOSURE over the upvalue descriptors from the i-th (from
\* 0); ks[i + 1] is the k of capture_value for that descriptor.
\* Result: [heap, vm].
RECURSIVE CaptureAll(_, _, _, _, _, _)
CaptureAll(h, v0, v, closure, i, ks) ==
    IF i >= h[closure].upvalue_count
    THEN HV(h, v)
    ELSE LET is_local == ByteAt(h, v0, 2 + 2 * i)
             index == ByteAt(h, v0, 3 + 2 * i)
         IN IF is_local = 1
            THEN LET captured_value_index == CurFrame(v).slots + index
                     r == capture_value(h, v, v.stack[captured_value_index + 1],
                                        ks[i + 1])
                 IN CaptureAll([r.heap EXCEPT ![closure].upvalues[i + 1] = r.ptr],
                               v0, r.vm, closure, i + 1, ks)
            ELSE CaptureAll([h EXCEPT ![closure].upvalues[i + 1] =
                                 h[CurFrame(v).closure].upvalues[index + 1]],
                            v0, v, closure, i + 1, ks)

\* Op::CLOSURE
ExecClosure(h, v0, ks) ==
    LET function == as_obj(ConstantAt(h, v0, 1))
        h2 == Append(h, ClosureObject(h, function))
        closure == Len(h2)
        n == h[function].upvalue_count
        r == CaptureAll(h2, v0, v0, closure, 0, ks)
    IN HV(r.heap, Push(AdvanceIp(r.vm, 2 + 2 * n), ObjectV(closure)))

\* Op::GET_UPVALUE
ExecGetUpvalue(h, v0) ==
    LET v == AdvanceIp(v0, 2)
        slot == ByteAt(h, v0, 1)
        upvalue == h[CurFrame(v).closure].upvalues[slot + 1]
    IN HV(h, Push(v, h[upvalue].location))

\* Op::SET_UPVALUE
ExecSetUpvalue(h, v0) ==
    LET v == AdvanceIp(v0, 2)
        slot == ByteAt(h, v0, 1)
        upvalue == h[CurFrame(v).closure].upvalues[slot + 1]
    IN HV([h EXCEPT ![upvalue].location = Peek(v, 0)], v)

\* Op::CLOSE_UPVALUE; k: see close_upvalue
ExecCloseUpvalue(h, v0, k) ==
    LET r == close_upvalue(h, AdvanceIp(v0, 1), k)
    IN HV(r.heap, PopN(r.vm, 1))

\* read_short!: the two bytes after the opcode, high byte first
U16_MAX == 65535
\* the operand read low byte first
read_short_low_first(hi, lo) == (lo * 256 + hi) % (U16_MAX + 1)
read_short(hi, lo) == (hi * 256 + lo) % (U16_MAX + 1)

\* the ip a jump leaves: the ip after the operand, moved by the operand;
\* sign is 1 for JUMP and JUMP_IF_FALSE, -1 for LOOP
JumpTo(ip, sign, offset) == ip + 3 + sign * offset

\* Op::JUMP_IF_FALSE: the condition stays on the stack
ExecJumpIfFalse(h, v0) ==
    LET offset == read_short(ByteAt(h, v0, 1), ByteAt(h, v0, 2))
    IN HV(h, IF is_falsey(Peek(v0, 0))
             THEN [v0 EXCEPT !.frames[v0.frame_count].ip = JumpTo(@, 1, offset)]
             ELSE AdvanceIp(v0, 3))

\* Op::JUMP
ExecJump(h, v0) ==
    LET offset == read_short(ByteAt(h, v0, 1), ByteAt(h, v0, 2))
    IN HV(h, [v0 EXCEPT !.frames[v0.frame_count].ip = JumpTo(@, 1, offset)])

\* Op::LOOP: ip is a usize, a subtraction below zero ends the process
ExecLoop(h, v0) ==
    LET offset == read_short(ByteAt(h, v0, 1), ByteAt(h, v0, 2))
    IN HV(h, IF JumpTo(CurFrame(v0).ip, -1, offset) < 0
             THEN [AdvanceIp(v0, 3) EXCEPT !.status = "panic"]
             ELSE [v0 EXCEPT !.frames[v0.frame_count].ip = JumpTo(@, -1, offset)])

-----------------------------------------------------------------------------
(* What the compiler hands to the VM: src/compiler/src/parser.rs.  A        *)
(* program is a sequence of function definitions, the script last, whose    *)
(* bodies are statements over expressions with names already resolved to    *)
(* global names, local slots and upvalue indices.  The emitters below write *)
(* the bytes and the constant pool that the parser's emitters write.        *)

KNum(n) == [k |-> "num", n |-> n, s |-> <<>>]
KStr(str) == [k |-> "str", n |-> 0, s |-> str]
KFun(i) == [k |-> "fun", n |-> i, s |-> <<>>]

\* The parser's state as far as the emitters go: the code and the constant
\* pool of the chunk being written, had_error and panic_mode.
\* `log` is a history of the parser, kept for the claims; the parser has no
\* such field.  An entry has a kind, an offset `at` into the code and a
\* `mark`:
\*   "error"     error_at printed a message; at is the code length
\*   "constant"  make_constant stored a value at pool index mark and
\*               returned mark ("no_constant": it reported an error and
\*               returned 0); at is the offset emit_constant writes the
\*               operand at
\*   "jump"      patch_jump wrote the operand at offset at when the code
\*               length was mark
\*   "loop"      emit_loop wrote the operand at offset at for loop_start mark
Logged(st, kind, at, mark) ==
    [st EXCEPT !.log = Append(@, [kind |-> kind, at |-> at, mark |-> mark])]

ParserNew ==
    [code |-> <<>>, constants |-> <<>>, had_error |-> FALSE, panic_mode |-> FALSE,
     log |-> <<>>]

\* Parser::error / error_at: nothing is recorded while in panic mode
error_at(st) ==
    IF st.panic_mode THEN st
    ELSE Logged([st EXCEPT !.panic_mode = TRUE, !.had_error = TRUE],
                "error", Len(st.code), 0)

\* a synchronize that also forgets the error
synchronize_forgetting(st) == [st EXCEPT !.panic_mode = FALSE, !.had_error = FALSE]

\* synchronize: the sources compiled here leave it no token to skip
synchronize(st) == [st EXCEPT !.panic_mode = FALSE]

\* emit_byte, several at once
Emit(st, bytes) == [st EXCEPT !.code = @ \o bytes]

\* Chunk::add_constant appends and returns the index, the old length
add_constant(st, k) == [st EXCEPT !.constants = Append(@, k)]

\* make_constant: an index above u8::MAX is an error and the byte is 0
U8_MAX == 255
\* a make_constant without the check against u8::MAX
make_constant_unchecked(st, k) ==
    Logged(add_constant(st, k), "constant", Len(st.code) + 1, Len(st.constants))
MakeConstant(st, k) ==
    IF Len(st.constants) > U8_MAX
    THEN Logged(error_at(add_constant(st, k)), "no_constant",
                Len(st.code) + 1, Len(st.constants))
    ELSE Logged(add_constant(st, k), "constant", Len(st.code) + 1, Len(st.constants))
\* the byte make_constant returns when called in the state st
ConstantByte(st) == IF Len(st.constants) > U8_MAX THEN 0 ELSE Len(st.constants)

\* emit_constant
EmitConstant(st, k) ==
    Emit(MakeConstant(st, k), <<Op.OP_CONSTANT, ConstantByte(st)>>)

\* the casts and shifts of patch_jump and emit_loop
AsU16(n) == n % (U16_MAX + 1)
HighByte(n) == (n \div 256) % 256
LowByte(n) == n % 256
\* patch_jump's `jump` for the operand at `offset` of a chunk `len` bytes long
JumpOperand(len, offset) == AsU16(len - offset - 2)
JumpError(jump) == jump >= U16_MAX
\* emit_loop's `offset`, `len` bytes emitted including the LOOP opcode
LoopOperand(len, loop_start) == AsU16(len - loop_start + 2)
LoopError(offset) == offset > U16_MAX

\* emit_jump; the offset it returns is Len(code) - 2 of its result
emit_jump(st, op) == Emit(st, <<op, 255, 255>>)

\* patch_jump
patch_jump(st, offset) ==
    LET jump == JumpOperand(Len(st.code), offset)
    IN Logged([(IF JumpError(jump) THEN error_at(st) ELSE st) EXCEPT
                  !.code[offset + 1] = HighByte(jump),
                  !.code[offset + 2] = LowByte(jump)],
              "jump", offset, Len(st.code))

\* emit_loop
emit_loop(st, loop_start) ==
    LET offset == LoopOperand(Len(st.code) + 1, loop_start)
    IN Logged(Emit(IF LoopError(offset) THEN error_at(st) ELSE st,
                   <<Op.OP_LOOP, HighByte(offset), LowByte(offset)>>),
              "loop", Len(st.code) + 1, loop_start)

\* Parser::unary
UnaryOps(op) ==
    CASE op = "-" -> <<Op.OP_NEGATE>>
      [] op = "!" -> <<Op.OP_NOT>>

\* Parser::binary
BinaryOps(op) ==
    CASE op = "!=" -> <<Op.OP_EQUAL, Op.OP_NOT>>
      [] op = "==" -> <<Op.OP_EQUAL>>
      [] op = ">" -> <<Op.OP_GREATER>>
      [] op = ">=" -> <<Op.OP_LESS, Op.OP_NOT>>
      [] op = "<" -> <<Op.OP_LESS>>
      [] op = "<=" -> <<Op.OP_GREATER, Op.OP_NOT>>
      [] op = "+" -> <<Op.OP_ADD>>
      [] op = "-" -> <<Op.OP_SUBTRACT>>
      [] op = "*" -> <<Op.OP_MULTIPLY>>
      [] op = "/" -> <<Op.OP_DIVIDE>>

\* expressions
ENum(n) == [e |-> "num", n |-> n]
EStr(str) == [e |-> "str", s |-> str]
ENil == [e |-> "nil"]
ETrue == [e |-> "true"]
EFalse == [e |-> "false"]
EUnary(op, a) == [e |-> "unary", op |-> op, a |-> a]
\* an expression as the scanner hands it over, token by token
ETokens(toks) == [e |-> "tokens", toks |-> toks]
EBinary(op, a, b) == [e |-> "binary", op |-> op, a |-> a, b |-> b]
EGlobal(name) == [e |-> "global", name |-> name]
ESetGlobal(name, a) == [e |-> "set_global", name |-> name, a |-> a]
ELocal(slot) == [e |-> "local", slot |-> slot]
ESetLocal(slot, a) == [e |-> "set_local", slot |-> slot, a |-> a]
EUpvalue(slot) == [e |-> "upvalue", slot |-> slot]
ESetUpvalue(slot, a) == [e |-> "set_upvalue", slot |-> slot, a |-> a]
ECall(callee, args) == [e |-> "call", callee |-> callee, args |-> args]
EAnd(a, b) == [e |-> "and", a |-> a, b |-> b]
EOr(a, b) == [e |-> "or", a |-> a, b |-> b]

\* number, string, literal, unary, binary, named_variable, call + arg_list
\* The expression parser on tokens.  A token is [ty, n]: ty "Number" with
\* its value n, or the lexeme of an operator or of ';'.  ps is the parser:
\* the emitter st, the tokens, and pos with current = toks[pos] and
\* previous = toks[pos - 1].
Token(ty) == [ty |-> ty, n |-> 0]
NumberToken(n) == [ty |-> "Number", n |-> n]

Precedence ==
    [None |-> 0, Assignment |-> 1, Or |-> 2, And |-> 3, Equality |-> 4,
     Comparison |-> 5, Term |-> 6, Factor |-> 7, Unary |-> 8, Call |-> 9,
     Primary |-> 10]

\* Precedence::higher
higher(p) ==
    IF p <= Precedence.Assignment THEN Precedence.Or
    ELSE IF p = Precedence.Primary THEN Precedence.Primary
    ELSE p + 1

ParseRule(prefix, infix, precedence) ==
    [prefix |-> prefix, infix |-> infix, precedence |-> precedence]

\* the rules of Parser::new for the tokens of these expressions
get_rule(ty) ==
    CASE ty = "Number" -> ParseRule("number", "none", Precedence.None)
      [] ty = "-" -> ParseRule("unary", "binary", Precedence.Term)
      [] ty = "+" -> ParseRule("none", "binary", Precedence.Term)
      [] ty \in {"/", "*"} -> ParseRule("none", "binary", Precedence.Factor)
      [] ty = "!" -> ParseRule("unary", "none", Precedence.None)
      [] ty \in {"!=", "=="} -> ParseRule("none", "binary", Precedence.Equality)
      [] ty \in {">", ">=", "<", "<="} -> ParseRule("none", "binary", Precedence.Comparison)
      [] OTHER -> ParseRule("none", "none", Precedence.None)

Previous(ps) == ps.toks[ps.pos - 1]
Current(ps) == ps.toks[ps.pos]
Advance(ps) == [ps EXCEPT !.pos = @ + 1]
Emitting(ps, st) == [ps EXCEPT !.st = st]

RECURSIVE parse_with_precedence(_, _)
RECURSIVE InfixLoop(_, _)

\* (a variant: the right operand parsed at the operator's own precedence)
binary_same_precedence(ps) ==
    Emitting(parse_with_precedence(ps, get_rule(Previous(ps).ty).precedence),
             Emit(parse_with_precedence(ps, get_rule(Previous(ps).ty).precedence).st,
                  BinaryOps(Previous(ps).ty)))

\* Parser::binary; previous is the operator
binary(ps) ==
    Emitting(parse_with_precedence(ps, higher(get_rule(Previous(ps).ty).precedence)),
             Emit(parse_with_precedence(ps, higher(get_rule(Previous(ps).ty).precedence)).st,
                  BinaryOps(Previous(ps).ty)))

\* Parser::unary; previous is the operator
unary(ps) ==
    Emitting(parse_with_precedence(ps, Precedence.Unary),
             Emit(parse_with_precedence(ps, Precedence.Unary).st,
                  UnaryOps(Previous(ps).ty)))

\* Parser::number
number(ps) == Emitting(ps, EmitConstant(ps.st, KNum(Previous(ps).n)))

\* parse_with_precedence from its `while`
InfixLoop(ps, precedence) ==
    IF precedence <= get_rule(Current(ps).ty).precedence
    THEN InfixLoop(IF get_rule(Current(ps).ty).infix = "binary"
                   THEN binary(Advance(ps))
                   ELSE Emitting(Advance(ps), error_at(ps.st)),
                   precedence)
    ELSE ps

\* the prefix rule of previous
Prefix(ps) ==
    CASE get_rule(Previous(ps).ty).prefix = "number" -> number(ps)
      [] get_rule(Previous(ps).ty).prefix = "unary" -> unary(ps)
      [] OTHER -> Emitting(ps, error_at(ps.st))

parse_with_precedence(ps, precedence) == InfixLoop(Prefix(Advance(ps)), precedence)

RECURSIVE CompileExpr(_, _)
RECURSIVE CompileArgs(_, _, _)

\* (a variant: and without the POP of the left operand)
AndRightKeepingLeft(st2, b) ==
    patch_jump(CompileExpr(st2, b), Len(st2.code) - 2)

\* Parser::and after its left operand and emit_jump; st2 is the state then
AndRight(st2, b) ==
    patch_jump(CompileExpr(Emit(st2, <<Op.OP_POP>>), b), Len(st2.code) - 2)

\* Parser::or after its left operand and the first emit_jump
OrRight(st2, b) ==
    patch_jump(CompileExpr(Emit(patch_jump(emit_jump(st2, Op.OP_JUMP), Len(st2.code) - 2),
                                <<Op.OP_POP>>), b),
               Len(st2.code) + 1)

CompileExpr(st, x) ==
    CASE x.e = "num" -> EmitConstant(st, KNum(x.n))
      [] x.e = "str" -> EmitConstant(st, KStr(x.s))
      [] x.e = "nil" -> Emit(st, <<Op.OP_NIL>>)
      [] x.e = "true" -> Emit(st, <<Op.OP_TRUE>>)
      [] x.e = "false" -> Emit(st, <<Op.OP_FALSE>>)
      [] x.e = "unary" -> Emit(CompileExpr(st, x.a), UnaryOps(x.op))
      [] x.e = "binary" ->
            Emit(CompileExpr(CompileExpr(st, x.a), x.b), BinaryOps(x.op))
      [] x.e = "global" ->
            Emit(MakeConstant(st, KStr(x.name)),
                 <<Op.OP_GET_GLOBAL, ConstantByte(st)>>)
      [] x.e = "set_global" ->
            Emit(CompileExpr(MakeConstant(st, KStr(x.name)), x.a),
                 <<Op.OP_SET_GLOBAL, ConstantByte(st)>>)
      [] x.e = "local" -> Emit(st, <<Op.OP_GET_LOCAL, x.slot>>)
      [] x.e = "set_local" -> Emit(CompileExpr(st, x.a), <<Op.OP_SET_LOCAL, x.slot>>)
      [] x.e = "upvalue" -> Emit(st, <<Op.OP_GET_UPVALUE, x.slot>>)
      [] x.e = "set_upvalue" ->
            Emit(CompileExpr(st, x.a), <<Op.OP_SET_UPVALUE, x.slot>>)
      [] x.e = "call" ->
            Emit(CompileArgs(CompileExpr(st, x.callee), x.args, 1),
                 <<Op.OP_CALL, Len(x.args)>>)
      [] x.e = "tokens" ->
            parse_with_precedence([st |-> st, toks |-> Append(x.toks, Token(";")),
                                   pos |-> 1], Precedence.Assignment).st
      [] x.e = "and" ->
            AndRight(emit_jump(CompileExpr(st, x.a), Op.OP_JUMP_IF_FALSE), x.b)
      [] x.e = "or" ->
            OrRight(emit_jump(CompileExpr(st, x.a), Op.OP_JUMP_IF_FALSE), x.b)

CompileArgs(st, args, i) ==
    IF i > Len(args) THEN st ELSE CompileArgs(CompileExpr(st, args[i]), args, i + 1)

\* statements
SExpr(a) == [s |-> "expr", a |-> a]
SPrint(a) == [s |-> "print", a |-> a]
SVarGlobal(name, a) == [s |-> "var_global", name |-> name, a |-> a]
SVarLocal(a) == [s |-> "var_local", a |-> a]
SFunGlobal(name, fn) == [s |-> "fun_global", name |-> name, fn |-> fn]
SFunLocal(fn) == [s |-> "fun_local", fn |-> fn]
SReturn(a) == [s |-> "return", a |-> a]
SReturnNil == [s |-> "return_nil"]
SBlock(body, captured) == [s |-> "block", body |-> body, captured |-> captured]
\* if (cond) then else orelse;  orelse is a sequence of no or one statement
SIf(cond, then, orelse) == [s |-> "if", cond |-> cond, then |-> then, orelse |-> orelse]
SWhile(cond, body) == [s |-> "while", cond |-> cond, body |-> body]
\* nil; nil; ... nil;   n expression statements
SNils(n) == [s |-> "nils", n |-> n]
\* print ;   the expression is missing: parse_with_precedence reports
\* "Expect expression.", consume is silent in panic mode, PRINT is emitted
\* and the statement ends at the ';' synchronize looks for
SBad == [s |-> "bad"]

\* the (is_local, index) pairs Parser::function emits after CLOSURE
RECURSIVE UpvalueBytes(_, _)
UpvalueBytes(upvalues, i) ==
    IF i > Len(upvalues) THEN <<>>
    ELSE <<upvalues[i].is_local, upvalues[i].index>> \o UpvalueBytes(upvalues, i + 1)

\* end_scope: one POP or CLOSE_UPVALUE per local of the scope, last declared
\* first; captured[i] is is_captured of the i-th local declared in the scope
RECURSIVE EndScope(_, _)
EndScope(captured, i) ==
    IF i = 0 THEN <<>>
    ELSE <<IF captured[i] THEN Op.OP_CLOSE_UPVALUE ELSE Op.OP_POP>>
         \o EndScope(captured, i - 1)

\* expression_statement, print_statement, var_declaration, fun_declaration +
\* function, return_statement, block + end_scope
RECURSIVE CompileStmt(_, _, _)
RECURSIVE CompileBody(_, _, _, _)

\* if_statement from `let else_jump`; st4 is the state after the second
\* emit_jump, then_jump the offset the first returned
IfElse(funs, st4, then_jump, orelse) ==
    patch_jump(IF orelse = <<>> THEN Emit(patch_jump(st4, then_jump), <<Op.OP_POP>>)
               ELSE CompileStmt(funs, Emit(patch_jump(st4, then_jump), <<Op.OP_POP>>),
                                orelse[1]),
               Len(st4.code) - 2)

\* if_statement after the condition and the first emit_jump
IfThen(funs, st2, x) ==
    IfElse(funs, emit_jump(CompileStmt(funs, st2, x.then), Op.OP_JUMP),
           Len(st2.code) - 2, x.orelse)

\* while_statement after the condition and emit_jump
WhileBody(funs, st2, loop_start, body) ==
    Emit(patch_jump(emit_loop(CompileStmt(funs, Emit(st2, <<Op.OP_POP>>), body), loop_start),
                    Len(st2.code) - 2),
         <<Op.OP_POP>>)

CompileStmt(funs, st, x) ==
    CASE x.s = "expr" -> Emit(CompileExpr(st, x.a), <<Op.OP_POP>>)
      [] x.s = "print" -> Emit(CompileExpr(st, x.a), <<Op.OP_PRINT>>)
      [] x.s = "var_global" ->
            Emit(CompileExpr(MakeConstant(st, KStr(x.name)), x.a),
                 <<Op.OP_DEFINE_GLOBAL, ConstantByte(st)>>)
      [] x.s = "var_local" -> CompileExpr(st, x.a)
      [] x.s = "fun_global" ->
            Emit(MakeConstant(MakeConstant(st, KStr(x.name)), KFun(x.fn)),
                 <<Op.OP_CLOSURE, ConstantByte(MakeConstant(st, KStr(x.name)))>>
                 \o UpvalueBytes(funs[x.fn].upvalues, 1)
                 \o <<Op.OP_DEFINE_GLOBAL, ConstantByte(st)>>)
      [] x.s = "fun_local" ->
            Emit(MakeConstant(st, KFun(x.fn)),
                 <<Op.OP_CLOSURE, ConstantByte(st)>>
                 \o UpvalueBytes(funs[x.fn].upvalues, 1))
      [] x.s = "return" -> Emit(CompileExpr(st, x.a), <<Op.OP_RETURN>>)
      [] x.s = "return_nil" -> Emit(st, <<Op.OP_NIL, Op.OP_RETURN>>)
      [] x.s = "block" ->
            Emit(CompileBody(funs, st, x.body, 1), EndScope(x.captured, Len(x.captured)))
      [] x.s = "bad" -> Emit(error_at(st), <<Op.OP_PRINT>>)
      [] x.s = "nils" ->
            Emit(st, [i \in 1..2 * x.n |-> IF i % 2 = 1 THEN Op.OP_NIL ELSE Op.OP_POP])
      [] x.s = "if" ->
            IfThen(funs, emit_jump(CompileExpr(st, x.cond), Op.OP_JUMP_IF_FALSE), x)
      [] x.s = "while" ->
            WhileBody(funs, emit_jump(CompileExpr(st, x.cond), Op.OP_JUMP_IF_FALSE),
                      Len(st.code), x.body)

\* declaration: the statement, then synchronize in panic mode
Synchronized(st) == IF st.panic_mode THEN synchronize(st) ELSE st
declaration(funs, st, x) == Synchronized(CompileStmt(funs, st, x))

\* the declarations body[lo] .. body[hi] in order, the first half before
\* the second.  CompileAfter looks at the parser the first half left, which
\* is out of panic mode, so that TLC evaluates it before it goes on:
\* unevaluated, the declarations would be evaluated last to first, each
\* nested in the one after it.
RECURSIVE CompileRange(_, _, _, _, _)
CompileAfter(funs, st, body, lo, hi) ==
    IF st.panic_mode THEN CompileRange(funs, synchronize(st), body, lo, hi)
    ELSE CompileRange(funs, st, body, lo, hi)
CompileRange(funs, st, body, lo, hi) ==
    IF lo > hi THEN st
    ELSE IF lo = hi THEN declaration(funs, st, body[lo])
    ELSE CompileAfter(funs, CompileRange(funs, st, body, lo, (lo + hi) \div 2),
                      body, (lo + hi) \div 2 + 1, hi)

\* declaration until the end of the block or of the source
CompileBody(funs, st, body, i) == CompileRange(funs, st, body, i, Len(body))

\* a function definition; the script is the unnamed one
FunDef(name, arity, upvalues, body) ==
    [named |-> TRUE, name |-> name, arity |-> arity, upvalues |-> upvalues,
     body |-> body]
Script(body) ==
    [named |-> FALSE, name |-> <<>>, arity |-> 0, upvalues |-> <<>>, body |-> body]
UpValue(is_local, index) == [is_local |-> is_local, index |-> index]

\* the body, then emit_return of end_compiler / Parser::end
CompileFun(funs, fd) ==
    Emit(CompileBody(funs, ParserNew, fd.body, 1),
         <<Op.OP_NIL, Op.OP_RETURN>>)

\* the string contents a compiled function interns: its name, then its
\* string constants
StrConstants(constants) ==
    LET strs == SelectSeq(constants, LAMBDA c : c.k = "str")
    IN [j \in 1..Len(strs) |-> strs[j].s]

\* r carries the heap and the intern table from one StringObject::new to
\* the next
RECURSIVE InternSeq(_, _, _)
InternSeq(r, strs, i) ==
    IF i > Len(strs) THEN r
    ELSE InternSeq(StringNew(r.heap, r.table, strs[i]), strs, i + 1)

FunStrings(funs, fd) ==
    (IF fd.named THEN <<fd.name>> ELSE <<>>) \o StrConstants(CompileFun(funs, fd).constants)

RECURSIVE InternProgram(_, _, _)
InternProgram(r, funs, i) ==
    IF i > Len(funs) THEN r
    ELSE InternProgram(InternSeq(r, FunStrings(funs, funs[i]), 1), funs, i + 1)

InternedPtr(h, t, str) ==
    find_string(h, t, Append(str, NUL), hash_string(Append(str, NUL)))

\* a constant of the pool as a Value; functions are allocated after the
\* strings, the i-th at base + i
ConstantValue(h, t, base, c) ==
    CASE c.k = "num" -> NumberV(c.n)
      [] c.k = "str" -> ObjectV(InternedPtr(h, t, c.s))
      [] c.k = "fun" -> ObjectV(base + c.n)

LoadFunction(h, t, base, fd, c) ==
    FunctionObject(IF fd.named THEN InternedPtr(h, t, fd.name) ELSE 0,
                   fd.arity, Len(fd.upvalues),
                   Chunk(c.code,
                         [j \in 1..Len(c.constants) |->
                             ConstantValue(h, t, base, c.constants[j])]))

Load(r, funs) ==
    [heap |-> r.heap \o [i \in 1..Len(funs) |->
                           LoadFunction(r.heap, r.table, Len(r.heap), funs[i],
                                        CompileFun(funs, funs[i]))],
     table |-> r.table,
     function |-> Len(r.heap) + Len(funs)]

\* compile: [heap, table, function], function the script
Compile(funs) ==
    Load(InternProgram([heap |-> <<>>, table |-> TableNew], funs, 1), funs)

-----------------------------------------------------------------------------
(* The Table specification: any sequence of set / get / delete calls on a  *)
(* Table::new(), keyed by the first NumKeys strings over the alphabet (in  *)
(* length-then-alphabet order: "", "a", "b", "aa", ...).                   *)

RECURSIVE KeyString(_)
KeyString(i) ==
    IF i <= 1 THEN <<>>
    ELSE Append(KeyString(((i - 2) \div 2) + 1), 97 + ((i - 2) % 2))

RECURSIVE InternKeys(_, _)
InternKeys(r, i) ==
    IF i > NumKeys THEN r
    ELSE InternKeys(StringNew(r.heap, r.table, KeyString(i)), i + 1)

Keys == 1..NumKeys
TableVals == {Nil} \cup {NumberV(n) : n \in 1..NumVals}

VMIdle == [status |-> "idle"]

Call(op, key, result, flag, hung) ==
    [op |-> op, key |-> key, result |-> result, flag |-> flag, hung |-> hung]

TableInit ==
    /\ \E r \in {InternKeys([heap |-> <<>>, table |-> TableNew], 1)} :
          heap = r.heap /\ strings = r.table
    /\ table = TableNew
    /\ shadow = [k \in Keys |-> None]
    /\ ret = Call("new", NoKey, None, FALSE, FALSE)
    /\ vm = VMIdle
    /\ program = <<>>

\* the tombstones of a table: entries without a key whose value is not nil
Tombstones(t) ==
    {i \in 1..Len(t.entries) : t.entries[i].key = NoKey /\ ~is_nil(t.entries[i].value)}

\* the live entries
Live(t) == {i \in 1..Len(t.entries) : t.entries[i].key # NoKey}

TSet(k, v) ==
    LET r == TableSet(heap, table, k, v) IN
    /\ table' = r.table
    /\ shadow' = IF r.hung THEN shadow ELSE [shadow EXCEPT ![k] = Some(v)]
    /\ ret' = Call("set", k, Some(v), r.result, r.hung)
    /\ UNCHANGED <<heap, strings, vm, program>>

TGet(k) ==
    LET r == TableGet(heap, table, k) IN
    /\ ret' = Call("get", k, r.result, r.result.some, r.hung)
    /\ UNCHANGED <<heap, strings, table, shadow, vm, program>>

TDelete(k) ==
    LET r == TableDelete(heap, table, k) IN
    /\ table' = r.table
    /\ shadow' = IF r.hung THEN shadow ELSE [shadow EXCEPT ![k] = None]
    /\ ret' = Call("delete", k, None, r.result, r.hung)
    /\ UNCHANGED <<heap, strings, vm, program>>

TableNext ==
    \/ \E k \in Keys, v \in TableVals : TSet(k, v)
    \/ \E k \in Keys : TGet(k)
    \/ \E k \in Keys : TDelete(k)

SpecTable == TableInit /\ [][TableNext]_vars

\* the key is live in the table: some entry holds it
LiveKey(t, k) == \E i \in Live(t) : t.entries[i].key = k

(* C14: Table return values reflect prior membership.  set(k, v) returns   *)
(* true exactly when no entry held k before the call, a tombstone reused   *)
(* or not, and false when it overwrote k; delete(k) returns true exactly   *)
(* when an entry held k, and a delete that returns false leaves the table  *)
(* as it was.                                                              *)
C14_ReturnsReflectMembership ==
    [][/\ (ret'.op = "set" /\ ~ret'.hung) => (ret'.flag <=> ~LiveKey(table, ret'.key))
       /\ (ret'.op = "delete" /\ ~ret'.hung) =>
              /\ ret'.flag <=> LiveKey(table, ret'.key)
              /\ ~ret'.flag => table' = table]_vars

\* a delete of a key that an entry holds returned false
C14_DeleteOfLiveKeyRefused ==
    /\ ret.op = "delete" /\ ~ret.hung /\ ~ret.flag
    /\ LiveKey(table, ret.key)

(* C27: Table count invariant.  In every state a sequence of set and      *)
(* delete calls reaches, count is the number of entries that hold a key.   *)
C27_CountIsLive == table.count = Cardinality(Live(table))

\* after a set that reused a tombstone, count is below the number of
\* entries that hold a key
C27_CountBelowLive ==
    /\ ret.op = "set" /\ ~ret.hung /\ ret.flag
    /\ table.count < Cardinality(Live(table))

\* the bucket of a key, and the other keys of t that share the bucket of k
Bucket(h, t, k) == h[k].hash % t.capacity
Colliding(h, t, k) ==
    {i \in Live(t) : t.entries[i].key # k /\ Bucket(h, t, t.entries[i].key) = Bucket(h, t, k)}

\* get and find_string both find the key of entry i of t in the table t2
Reachable(h, t, i, t2) ==
    /\ TableGet(h, t2, t.entries[i].key).result = Some(t.entries[i].value)
    /\ find_string(h, t2, h[t.entries[i].key].chars, h[t.entries[i].key].hash)
          = t.entries[i].key

(* C28: Tombstones keep probe sequences correct.  After any sequence of    *)
(* set and delete calls no two entries hold the same key, and a delete     *)
(* that removed a key leaves every other live key of its bucket reachable  *)
(* for get and find_string, with the value it had.                         *)
C28_TombstonesKeepProbes ==
    [][/\ \A i, j \in Live(table') :
              table'.entries[i].key = table'.entries[j].key => i = j
       /\ (ret'.op = "delete" /\ ret'.flag) =>
              \A i \in Colliding(heap, table, ret'.key) : Reachable(heap, table, i, table')]_vars

\* a delete that removed a key left a live key of its bucket in a table
\* whose count is 0
C28_CollidingKeyLost ==
    /\ ret.op = "delete" /\ ret.flag
    /\ table.count = 0
    /\ \E i \in Live(table) :
          Bucket(heap, table, table.entries[i].key) = Bucket(heap, table, ret.key)

-----------------------------------------------------------------------------
(* The growth specification: a Table::new() driven by a script of set and *)
(* delete calls over one key more than a table of the least capacity     *)
(* holds before it grows again.  A script sets the keys in order; each of *)
(* the first NumKeys keys is set, or set and deleted, or set, deleted and *)
(* set again; one of them may be deleted before the last key is set; a    *)
(* last call sets any one key once more.                                  *)

GrowthKeys == 1..((3 * MIN_CAPACITY) \div 4 + 1)
\* each key is set to a value of its own
GrowthVal(k) == NumberV(k)

RECURSIVE InternFirst(_, _, _)
InternFirst(r, i, n) ==
    IF i > n THEN r
    ELSE InternFirst(StringNew(r.heap, r.table, KeyString(i)), i + 1, n)

SetOf(k) == [op |-> "set", key |-> k]
DeleteOf(k) == [op |-> "delete", key |-> k]
Churn(k, pattern) ==
    CASE pattern = "s" -> <<SetOf(k)>>
      [] pattern = "sd" -> <<SetOf(k), DeleteOf(k)>>
      [] pattern = "sds" -> <<SetOf(k), DeleteOf(k), SetOf(k)>>

RECURSIVE ChurnAll(_, _)
ChurnAll(patterns, k) ==
    IF k > NumKeys THEN <<>> ELSE Churn(k, patterns[k]) \o ChurnAll(patterns, k + 1)

GrowthScripts ==
    {ChurnAll(patterns, 1)
       \o [i \in 1..(Cardinality(GrowthKeys) - 1 - NumKeys) |-> SetOf(NumKeys + i)]
       \o (IF late = 0 THEN <<>> ELSE <<DeleteOf(late)>>)
       \o <<SetOf(Cardinality(GrowthKeys))>>
       \o (IF last = 0 THEN <<>> ELSE <<SetOf(last)>>) :
        patterns \in [1..NumKeys -> {"s", "sd", "sds"}],
        late \in 0..NumKeys,
        last \in {0} \cup GrowthKeys}

GrowthInit ==
    /\ \E r \in {InternFirst([heap |-> <<>>, table |-> TableNew], 1,
                              Cardinality(GrowthKeys))} :
          heap = r.heap /\ strings = r.table
    /\ table = TableNew
    /\ shadow = [k \in GrowthKeys |-> None]
    /\ ret = Call("new", NoKey, None, FALSE, FALSE)
    /\ vm = VMIdle
    /\ program \in GrowthScripts

\* the next call of the script is a set; ret also records whether the
\* capacity changed and how many tombstones and live keys the table had
GSet ==
    /\ program # <<>> /\ Head(program).op = "set"
    /\ \E r \in {TableSet(heap, table, Head(program).key, GrowthVal(Head(program).key))} :
          /\ table' = r.table
          /\ shadow' = IF r.hung THEN shadow
                       ELSE [shadow EXCEPT ![Head(program).key] =
                                Some(GrowthVal(Head(program).key))]
          /\ ret' = [op |-> "set", key |-> Head(program).key,
                     result |-> Some(GrowthVal(Head(program).key)),
                     flag |-> r.result, hung |-> r.hung,
                     grew |-> r.table.capacity # table.capacity,
                     tombstones |-> Cardinality(Tombstones(table)),
                     live |-> Cardinality(Live(table))]
    /\ program' = Tail(program)
    /\ UNCHANGED <<heap, strings, vm>>

\* the next call of the script is a delete
GDelete ==
    /\ program # <<>> /\ Head(program).op = "delete"
    /\ \E r \in {TableDelete(heap, table, Head(program).key)} :
          /\ table' = r.table
          /\ shadow' = IF r.hung THEN shadow ELSE [shadow EXCEPT ![Head(program).key] = None]
          /\ ret' = Call("delete", Head(program).key, None, r.result, r.hung)
    /\ program' = Tail(program)
    /\ UNCHANGED <<heap, strings, vm>>

GrowthNext == GSet \/ GDelete

SpecGrowth == GrowthInit /\ [][GrowthNext]_vars

(* C13: Table growth.  A set changes the capacity exactly when count + 1   *)
(* exceeds three quarters of the capacity, and the new capacity is the     *)
(* larger of 8 and twice the old one.  After a set that grew the table,    *)
(* every key that was live before the call and is not the key set still    *)
(* maps to its value, the key set maps to the value set, the entries hold  *)
(* no tombstone, and count is the number of live keys.                     *)
C13_Growth ==
    [][(ret'.op = "set" /\ ~ret'.hung) =>
          /\ (table'.capacity # table.capacity)
                 <=> (4 * (table.count + 1) > 3 * table.capacity)
          /\ (table'.capacity # table.capacity) =>
                 /\ table'.capacity = IF 2 * table.capacity > 8
                                      THEN 2 * table.capacity ELSE 8
                 /\ \A i \in Live(table) :
                        table.entries[i].key # ret'.key =>
                           TableGet(heap, table', table.entries[i].key).result
                              = Some(table.entries[i].value)
                 /\ TableGet(heap, table', ret'.key).result = ret'.result
                 /\ Tombstones(table') = {}
                 /\ table'.count = Cardinality(Live(table'))]_vars

\* a set grew a table of the least capacity that held live keys and a
\* tombstone
C13_GrewWithTombstone ==
    /\ ret.op = "set" /\ ~ret.hung /\ ret.grew
    /\ ret.tombstones > 0 /\ ret.live > 0
    /\ table.capacity = 2 * MIN_CAPACITY

-----------------------------------------------------------------------------
(* The fill specification: a Table::new() driven by a script over as many  *)
(* keys as a table of the least capacity has slots.  A script sets the     *)
(* keys in order, each one set, or set, deleted and set again; it may then *)
(* delete the last key; a last call sets the first or the last key.        *)

FillKeys == 1..MIN_CAPACITY

RECURSIVE ChurnFrom(_, _, _)
ChurnFrom(patterns, k, n) ==
    IF k > n THEN <<>> ELSE Churn(k, patterns[k]) \o ChurnFrom(patterns, k + 1, n)

FillScripts ==
    {ChurnFrom(patterns, 1, MIN_CAPACITY)
       \o (IF late THEN <<DeleteOf(MIN_CAPACITY)>> ELSE <<>>)
       \o <<SetOf(last)>> :
        patterns \in [FillKeys -> {"s", "sds"}],
        late \in BOOLEAN,
        last \in {1, MIN_CAPACITY}}

FillInit ==
    /\ \E r \in {InternFirst([heap |-> <<>>, table |-> TableNew], 1, MIN_CAPACITY)} :
          heap = r.heap /\ strings = r.table
    /\ table = TableNew
    /\ shadow = [k \in FillKeys |-> None]
    /\ ret = Call("new", NoKey, None, FALSE, FALSE)
    /\ vm = VMIdle
    /\ program \in FillScripts

SpecFill == FillInit /\ [][GrowthNext]_vars

\* the true-empty slots: no key and the value nil
Empty(t) ==
    {i \in 1..Len(t.entries) : t.entries[i].key = NoKey /\ is_nil(t.entries[i].value)}

(* C26: Table probing always terminates.  In every state a sequence of set *)
(* and delete calls reaches, a table of capacity > 0 has at least one      *)
(* true-empty slot (key None, value nil), and the probe of the call that   *)
(* led to the state returned.                                              *)
C26_ProbingTerminates ==
    /\ table.capacity > 0 => Empty(table) # {}
    /\ ~ret.hung

\* a set whose probe never returns: every slot holds a key or a tombstone
\* and none holds the key set
C26_SetNeverReturned ==
    /\ ret.op = "set" /\ ret.hung
    /\ Empty(table) = {} /\ Tombstones(table) # {}
    /\ ~LiveKey(table, ret.key)

-----------------------------------------------------------------------------
(* C1: Table round-trip.  Whenever get(k) returns, it returns Some(v) for  *)
(* the value v of the most recent set(k, v) not followed by delete(k), and *)
(* None when k was never set or was deleted since its last set.            *)
C1_TableRoundTrip ==
    (ret.op = "get" /\ ~ret.hung) => ret.result = shadow[ret.key]

\* a get of a key that was set, deleted and set again
C1_SetAfterDelete ==
    /\ ret.op = "get"
    /\ shadow[ret.key].some
    /\ \E i \in 1..Len(table.entries) :
          table.entries[i].key = NoKey /\ ~is_nil(table.entries[i].value)

-----------------------------------------------------------------------------
(* The interning specification: StringObject::new and Table::find_string   *)
(* called in any order on the contents KeyString(1..NumKeys).  `shadow`    *)
(* maps each content to the object its first StringObject::new returned   *)
(* (0 before that).                                                        *)

Lookup(op, key, raw, result, first, hung) ==
    [op |-> op, key |-> key, raw |-> raw, result |-> result, first |-> first,
     hung |-> hung]

StringsInit ==
    /\ heap = <<>>
    /\ strings = TableNew
    /\ table = TableNew
    /\ shadow = [k \in Keys |-> 0]
    /\ ret = Lookup("init", 0, FALSE, 0, 0, FALSE)
    /\ vm = VMIdle
    /\ program = <<>>

\* StringObject::new(KeyString(k), &mut strings)
SNew(k) ==
    \E r \in {StringNew(heap, strings, KeyString(k))} :
       /\ heap' = r.heap
       /\ strings' = r.table
       /\ shadow' = IF shadow[k] = 0 /\ ~r.hung THEN [shadow EXCEPT ![k] = r.ptr] ELSE shadow
       /\ ret' = Lookup("new", k, FALSE, r.ptr, shadow[k], r.hung)
       /\ UNCHANGED <<table, vm, program>>

\* strings.find_string(buffer, hash_string(buffer)) with buffer the content
\* as given (raw), or the content followed by NUL as StringObject::new builds it
SFind(k, raw) ==
    \E buffer \in {IF raw THEN KeyString(k) ELSE Append(KeyString(k), NUL)} :
       \E r \in {find_string(heap, strings, buffer, hash_string(buffer))} :
          /\ ret' = Lookup("find", k, raw, IF r = NoSlot THEN NoKey ELSE r, shadow[k],
                           r = NoSlot)
          /\ UNCHANGED <<heap, strings, table, shadow, vm, program>>

StringsNext ==
    \/ \E k \in Keys : SNew(k)
    \/ \E k \in Keys, raw \in BOOLEAN : SFind(k, raw)

SpecStrings == StringsInit /\ [][StringsNext]_vars

-----------------------------------------------------------------------------
-----------------------------------------------------------------------------
(* The programs run.  Each is what the parser resolves a source text to;   *)
(* the source is given above each family.                                  *)

NameClock == <<99, 108, 111, 99, 107>>
NameC == <<99>>
NameF == <<102>>
NameG == <<103>>
NameI == <<105>>
NameM == <<109>>
NameO == <<111>>
NameS == <<115>>
NameX == <<120>>

Numbers == 1..NumVals
StrLits == {KeyString(i) : i \in Keys}
Operands ==
    {ENum(n) : n \in Numbers} \cup {EStr(str) : str \in StrLits} \cup {ENil, ETrue, EFalse}

BinaryTokens == {"!=", "==", ">", ">=", "<", "<=", "+", "-", "*", "/"}
UnaryTokens == {"-", "!"}

\* a quotient of the numbers drawn is taken only where it is a whole number
Exact(op, x, y) == (op = "/" /\ x.e = "num" /\ y.e = "num") => x.n % y.n = 0

\* print x op y;   print op x;
ArithPrograms ==
    {<<Script(<<SPrint(EBinary(op, x, y))>>)>> :
        <<op, x, y>> \in {t \in BinaryTokens \X Operands \X Operands : Exact(t[1], t[2], t[3])}}
    \cup {<<Script(<<SPrint(EUnary(op, x))>>)>> : op \in UnaryTokens, x \in Operands}

\* print (s1 + s2) == (s3 + s4);   print (s1 + s2) == s3;   print s3 == (s1 + s2);
ConcatPrograms ==
    {<<Script(<<SPrint(EBinary("==", EBinary("+", EStr(s1), EStr(s2)),
                                     EBinary("+", EStr(s3), EStr(s4))))>>)>> :
        s1 \in StrLits, s2 \in StrLits, s3 \in StrLits, s4 \in StrLits}
    \cup {<<Script(<<SPrint(EBinary("==", EBinary("+", EStr(s1), EStr(s2)), EStr(s3)))>>)>> :
        s1 \in StrLits, s2 \in StrLits, s3 \in StrLits}
    \cup {<<Script(<<SPrint(EBinary("==", EStr(s3), EBinary("+", EStr(s1), EStr(s2))))>>)>> :
        s1 \in StrLits, s2 \in StrLits, s3 \in StrLits}

Args(m) == [i \in 1..m |-> ENum(1)]
Params(n) == [i \in 1..n |-> ELocal(i)]

\* fun f(p1, .., pn) { body }  f(1, .., 1);  f(1, .., 1);   with m1 and m2
\* arguments; the body is empty or `return;`
CallPrograms ==
    {<<FunDef(NameF, n, <<>>, body),
       Script(<<SFunGlobal(NameF, 1), SExpr(ECall(EGlobal(NameF), Args(m1))),
                SExpr(ECall(EGlobal(NameF), Args(m2)))>>)>> :
        n \in 0..MaxArity, body \in {<<>>, <<SReturnNil>>},
        m1 \in 0..MaxArity + 1, m2 \in 0..MaxArity + 1}

\* x(1, ..);   print clock(1, ..);
CalleePrograms ==
    {<<Script(<<SExpr(ECall(x, Args(m)))>>)>> : x \in Operands, m \in 0..MaxArity}
    \cup {<<Script(<<SPrint(ECall(EGlobal(NameClock), Args(m)))>>)>> : m \in 0..MaxArity}

\* var x = a; x = b; print x;   x = b;   print x;
GlobalPrograms ==
    {<<Script(<<SVarGlobal(NameX, x), SExpr(ESetGlobal(NameX, y)), SPrint(EGlobal(NameX))>>)>> :
        x \in Operands, y \in Operands}
    \cup {<<Script(<<SExpr(ESetGlobal(NameX, y))>>)>> : y \in Operands}
    \cup {<<Script(<<SPrint(EGlobal(NameX))>>)>>}

\* fun i() { return x; }  with x the local in slot 1 of the enclosing function
Getter == FunDef(NameG, 0, <<UpValue(1, 1)>>, <<SReturn(EUpvalue(0))>>)
\* fun s() { x = b; }
Setter(b) == FunDef(NameS, 0, <<UpValue(1, 1)>>, <<SExpr(ESetUpvalue(0, ENum(b)))>>)

\* fun m() { var i = 0; fun i() { i = i + 1; return i; } return i; }
\* var c = m(); print c(); print c();
CounterProgram ==
    <<FunDef(NameI, 0, <<UpValue(1, 1)>>,
             <<SExpr(ESetUpvalue(0, EBinary("+", EUpvalue(0), ENum(1)))),
               SReturn(EUpvalue(0))>>),
      FunDef(NameM, 0, <<>>, <<SVarLocal(ENum(0)), SFunLocal(1), SReturn(ELocal(2))>>),
      Script(<<SFunGlobal(NameM, 2), SVarGlobal(NameC, ECall(EGlobal(NameM), <<>>)),
               SPrint(ECall(EGlobal(NameC), <<>>)), SPrint(ECall(EGlobal(NameC), <<>>))>>)>>

\* fun o() { var x = a; fun g() { return x; } x = b; return g(); }  print o();
GetAfterSetLocal(a, b) ==
    <<Getter,
      FunDef(NameO, 0, <<>>, <<SVarLocal(ENum(a)), SFunLocal(1), SExpr(ESetLocal(1, ENum(b))),
                               SReturn(ECall(ELocal(2), <<>>))>>),
      Script(<<SFunGlobal(NameO, 2), SPrint(ECall(EGlobal(NameO), <<>>))>>)>>

\* fun o() { var x = a; fun s() { x = b; } s(); return x; }  print o();
SetViaClosure(a, b) ==
    <<Setter(b),
      FunDef(NameO, 0, <<>>, <<SVarLocal(ENum(a)), SFunLocal(1), SExpr(ECall(ELocal(2), <<>>)),
                               SReturn(ELocal(1))>>),
      Script(<<SFunGlobal(NameO, 2), SPrint(ECall(EGlobal(NameO), <<>>))>>)>>

\* fun o() { var x = a; fun g() { return x; } x = b; return g; }
\* var c = o(); print c(); print c();
ClosedAfterSet(a, b) ==
    <<Getter,
      FunDef(NameO, 0, <<>>, <<SVarLocal(ENum(a)), SFunLocal(1), SExpr(ESetLocal(1, ENum(b))),
                               SReturn(ELocal(2))>>),
      Script(<<SFunGlobal(NameO, 2), SVarGlobal(NameC, ECall(EGlobal(NameO), <<>>)),
               SPrint(ECall(EGlobal(NameC), <<>>)), SPrint(ECall(EGlobal(NameC), <<>>))>>)>>

\* fun o() { var x = a; fun g() { return x; } fun s() { x = b; } s(); return g(); }
\* print o();
SharedVariable(a, b) ==
    <<Getter, Setter(b),
      FunDef(NameO, 0, <<>>, <<SVarLocal(ENum(a)), SFunLocal(1), SFunLocal(2),
                               SExpr(ECall(ELocal(3), <<>>)), SReturn(ECall(ELocal(2), <<>>))>>),
      Script(<<SFunGlobal(NameO, 3), SPrint(ECall(EGlobal(NameO), <<>>))>>)>>

\* { var x = a; fun g() { return x; } print g(); }  print b;
BlockScope(a, b) ==
    <<Getter,
      Script(<<SBlock(<<SVarLocal(ENum(a)), SFunLocal(1), SPrint(ECall(ELocal(2), <<>>))>>,
                      <<TRUE, FALSE>>),
               SPrint(ENum(b))>>)>>

\* fun o() { var x = a; fun m() { fun i() { return x; } return i(); } x = b; return m(); }
\* print o();
NestedCapture(a, b) ==
    <<FunDef(NameI, 0, <<UpValue(0, 0)>>, <<SReturn(EUpvalue(0))>>),
      FunDef(NameM, 0, <<UpValue(1, 1)>>, <<SFunLocal(1), SReturn(ECall(ELocal(1), <<>>))>>),
      FunDef(NameO, 0, <<>>, <<SVarLocal(ENum(a)), SFunLocal(2), SExpr(ESetLocal(1, ENum(b))),
                               SReturn(ECall(ELocal(2), <<>>))>>),
      Script(<<SFunGlobal(NameO, 3), SPrint(ECall(EGlobal(NameO), <<>>))>>)>>

\* fun o() { var x = a; var y = b; fun g() { return x; } fun s() { return y; }
\*           return s(); }   print o();      (g and s in either order)
GetterOfSecond == FunDef(NameS, 0, <<UpValue(1, 2)>>, <<SReturn(EUpvalue(0))>>)
TwoVariables(a, b, first) ==
    <<Getter, GetterOfSecond,
      FunDef(NameO, 0, <<>>, <<SVarLocal(ENum(a)), SVarLocal(ENum(b)),
                               SFunLocal(first), SFunLocal(3 - first),
                               SReturn(ECall(ELocal(2 + first), <<>>))>>),
      Script(<<SFunGlobal(NameO, 3), SPrint(ECall(EGlobal(NameO), <<>>))>>)>>

ClosurePrograms ==
    {CounterProgram}
    \cup {TwoVariables(a, b, first) : a \in Numbers, b \in Numbers, first \in 1..2}
    \cup {GetAfterSetLocal(a, b) : a \in Numbers, b \in Numbers}
    \cup {SetViaClosure(a, b) : a \in Numbers, b \in Numbers}
    \cup {ClosedAfterSet(a, b) : a \in Numbers, b \in Numbers}
    \cup {SharedVariable(a, b) : a \in Numbers, b \in Numbers}
    \cup {BlockScope(a, b) : a \in Numbers, b \in Numbers}
    \cup {NestedCapture(a, b) : a \in Numbers, b \in Numbers}

\* fun f(p1, .., pn) { f(p1, .., pn); }  f(1, .., 1);
Recursion(n) ==
    <<FunDef(NameF, n, <<>>, <<SExpr(ECall(EGlobal(NameF), Params(n)))>>),
      Script(<<SFunGlobal(NameF, 1), SExpr(ECall(EGlobal(NameF), Args(n)))>>)>>

RecursionPrograms == {Recursion(n) : n \in 0..MaxParams}

\* the conditions tested: every operand, and the number 0
Conditions == Operands \cup {ENum(0)}

\* { if (c) nil; var x = n; print x; }
LocalAfterIf(c, n) ==
    <<Script(<<SBlock(<<SIf(c, SExpr(ENil), <<>>), SVarLocal(ENum(n)), SPrint(ELocal(1))>>,
                      <<FALSE>>)>>)>>

\* if (c) print 1; else print 2; print 3;     if (c) print 1; print 3;
\* var x = c; while (x) x = nil; print x;
\* print c and d;     print c or d;     print !0;
ControlPrograms ==
    {<<Script(<<SIf(c, SPrint(ENum(1)), orelse), SPrint(ENum(3))>>)>> :
        c \in Conditions, orelse \in {<<>>, <<SPrint(ENum(2))>>}}
    \cup {<<Script(<<SVarGlobal(NameX, c),
                    SWhile(EGlobal(NameX), SExpr(ESetGlobal(NameX, ENil))),
                    SPrint(EGlobal(NameX))>>)>> : c \in Conditions}
    \cup {<<Script(<<SPrint(EAnd(c, d))>>)>> : c \in Conditions, d \in Conditions}
    \cup {<<Script(<<SPrint(EOr(c, d))>>)>> : c \in Conditions, d \in Conditions}
    \cup {<<Script(<<SPrint(EUnary("!", ENum(0)))>>)>>}
    \cup {LocalAfterIf(c, n) : c \in {ETrue, EFalse}, n \in Numbers}

\* 1 op 2 op 3 ... ;   up to MaxOperators binary operators between the
\* numbers 1, 2, 3, ...
MaxOperators == 2
TokenExprs ==
    UNION { { [i \in 1..2 * n + 1 |->
                 IF i % 2 = 1 THEN NumberToken((i + 1) \div 2) ELSE Token(ops[i \div 2])] :
              ops \in [1..n -> BinaryTokens] } : n \in 0..MaxOperators }
TokenPrograms == {<<Script(<<SExpr(ETokens(toks))>>)>> : toks \in TokenExprs}

Programs ==
    ArithPrograms \cup ConcatPrograms \cup CallPrograms \cup CalleePrograms
    \cup GlobalPrograms \cup ClosurePrograms \cup RecursionPrograms
    \cup ControlPrograms \cup TokenPrograms

-----------------------------------------------------------------------------
(* Running a program.  VM::new builds the frames and defines the native     *)
(* clock; interpret wraps the compiled script in a closure, calls it with   *)
(* no arguments and enters run().                                           *)

\* CallFrame::new: a function with an empty chunk and its closure
CallFrameNew(h) ==
    Append(Append(h, FunctionObject(0, 0, 0, Chunk(<<>>, <<>>))),
           [ty |-> "Closure", function |-> Len(h) + 1, upvalues |-> <<>>,
            upvalue_count |-> 0])

\* the VM that VM::new builds; h is the heap after CallFrame::new
VMFresh(h) ==
    [status |-> "running", stack |-> <<>>,
     frames |-> [i \in 1..FRAMES_MAX |-> [closure |-> Len(h), ip |-> 0, slots |-> 0]],
     frame_count |-> 0, globals |-> TableNew, open_upvalues |-> 0, err |-> NoMessage,
     out |-> <<>>]

\* VM::define_native, `name` being what StringObject::new returned
define_native(name, v) ==
    LET h2 == Append(name.heap, NativeObject)
        v2 == Push(Push(v, ObjectV(name.ptr)), ObjectV(Len(h2)))
    IN [heap |-> h2, table |-> name.table,
        vm |-> [v EXCEPT !.globals = TableSet(h2, v.globals, name.ptr, v2.stack[2]).table]]

\* VM::new.  Result: [heap, table, vm].
VMNew(h, t) ==
    define_native(StringNew(CallFrameNew(h), t, NameClock), VMFresh(CallFrameNew(h)))

\* interpret: the script's closure is pushed and called
interpret(h, v, function) ==
    LET h2 == Append(h, ClosureObject(h, function))
        closure == Len(h2)
    IN HV(h2, call(h2, Push(v, ObjectV(closure)), closure, 0))

\* main.rs interpret: compile, VM::new, vm.interpret().  Result: [heap, table, vm].
Enter(n, function) ==
    LET r == interpret(n.heap, n.vm, function)
    IN [heap |-> r.heap, table |-> n.table, vm |-> r.vm]

Launch(c) == Enter(VMNew(c.heap, c.table), c.function)

Boot(funs) == Launch(Compile(funs))

-----------------------------------------------------------------------------
(* History of captured variables.  `vars` lists the local variables that   *)
(* some closure captured: the absolute stack slot, whether the variable is *)
(* still open (its frame has not returned, no CLOSE_UPVALUE ran for it),   *)
(* and `val`: while open, the value last stored into the variable by       *)
(* SET_LOCAL or SET_UPVALUE; once closed, the value its stack slot held at *)
(* that moment or the value a later SET_UPVALUE stored.  `refs` says which *)
(* variable each upvalue index of each closure stands for.                 *)

NoHistory == [vars |-> <<>>, refs |-> {}, globals |-> {}]

\* `globals` lists the globals defined so far (by VM::new for the natives,
\* by DEFINE_GLOBAL afterwards) with the value last given to each by
\* DEFINE_GLOBAL or by a SET_GLOBAL of a defined name.
Globals(t) == {[name |-> t.entries[i].key, val |-> t.entries[i].value] : i \in Live(t)}
Defined(sh, name) == \E g \in sh.globals : g.name = name
TrackGlobal(sh, name, val) ==
    [sh EXCEPT !.globals = {g \in @ : g.name # name} \cup {[name |-> name, val |-> val]}]

OpenAt(sh, slot) == {id \in 1..Len(sh.vars) : sh.vars[id].open /\ sh.vars[id].slot = slot}

RefOf(sh, closure, index) ==
    CHOOSE r \in sh.refs : r.closure = closure /\ r.index = index

RECURSIVE TrackCaptures(_, _, _, _, _)
TrackCaptures(sh, h, v, closure, i) ==
    IF i >= h[as_obj(ConstantAt(h, v, 1))].upvalue_count THEN sh
    ELSE LET is_local == ByteAt(h, v, 2 + 2 * i)
             index == ByteAt(h, v, 3 + 2 * i)
             slot == CurFrame(v).slots + index
             id == IF is_local = 1
                   THEN (IF OpenAt(sh, slot) # {} THEN CHOOSE x \in OpenAt(sh, slot) : TRUE
                         ELSE Len(sh.vars) + 1)
                   ELSE RefOf(sh, CurFrame(v).closure, index).id
             vars2 == IF id > Len(sh.vars)
                      THEN Append(sh.vars, [slot |-> slot, open |-> TRUE,
                                            val |-> v.stack[slot + 1]])
                      ELSE sh.vars
         IN TrackCaptures([sh EXCEPT !.vars = vars2,
                                     !.refs = @ \cup {[closure |-> closure, index |-> i,
                                                       id |-> id]}],
                          h, v, closure, i + 1)

\* a store into the variable `id`
TrackStore(sh, ids, val) ==
    [sh EXCEPT !.vars = [id \in 1..Len(sh.vars) |->
                            IF id \in ids THEN [sh.vars[id] EXCEPT !.val = val]
                            ELSE sh.vars[id]]]

\* the variables at or above `slot` stop being open
TrackClose(sh, v, slot) ==
    [sh EXCEPT !.vars = [id \in 1..Len(sh.vars) |->
                            IF sh.vars[id].open /\ sh.vars[id].slot >= slot
                            THEN [sh.vars[id] EXCEPT !.open = FALSE,
                                                     !.val = v.stack[sh.vars[id].slot + 1]]
                            ELSE sh.vars[id]]]

-----------------------------------------------------------------------------
(* The dispatch loop of VM::run, one action per opcode.  `ret` records the *)
(* instruction just executed and the operands it found.                    *)

Fetch(op) == vm.status = "running" /\ ByteAt(heap, vm, 0) = op

Did(op) ==
    [op |-> op,
     a |-> IF stack_top(vm) >= 2 THEN Peek(vm, 1) ELSE Nil,
     b |-> IF stack_top(vm) >= 1 THEN Peek(vm, 0) ELSE Nil,
     depth |-> stack_top(vm), frame_count |-> vm.frame_count,
     ip |-> CurFrame(vm).ip, slots |-> CurFrame(vm).slots,
     tracked |-> FALSE, open |-> FALSE, expected |-> Nil,
     arg_count |-> 0, arity |-> -1]

\* a read of a captured variable
DidRead(op, var) ==
    [Did(op) EXCEPT !.tracked = TRUE, !.open = var.open, !.expected = var.val]

Commit(r, sh, step) ==
    /\ heap' = r.heap
    /\ vm' = r.vm
    /\ shadow' = sh
    /\ ret' = step
    /\ UNCHANGED <<strings, table, program>>

OpenCount == Len(OpenList(heap, vm.open_upvalues))

DoReturn ==
    /\ Fetch(Op.OP_RETURN)
    /\ \E k \in 0..OpenCount :
          Commit(ExecReturn(heap, vm, k), TrackClose(shadow, vm, CurFrame(vm).slots),
                 Did("OP_RETURN"))

DoConstant == Fetch(Op.OP_CONSTANT) /\ Commit(ExecConstant(heap, vm), shadow, Did("OP_CONSTANT"))

DoNegate == Fetch(Op.OP_NEGATE) /\ Commit(ExecNegate(heap, vm), shadow, Did("OP_NEGATE"))

\* ADD is the one instruction that hands self.strings to a callee
DoAdd ==
    /\ Fetch(Op.OP_ADD)
    /\ heap' = ExecAdd(heap, strings, vm).heap
    /\ vm' = ExecAdd(heap, strings, vm).vm
    /\ strings' = ExecAdd(heap, strings, vm).table
    /\ shadow' = shadow
    /\ ret' = Did("OP_ADD")
    /\ UNCHANGED <<table, program>>

DoSubtract ==
    Fetch(Op.OP_SUBTRACT)
    /\ Commit(ExecBinary(heap, vm, Op.OP_SUBTRACT), shadow, Did("OP_SUBTRACT"))

DoMultiply ==
    Fetch(Op.OP_MULTIPLY)
    /\ Commit(ExecBinary(heap, vm, Op.OP_MULTIPLY), shadow, Did("OP_MULTIPLY"))

DoDivide ==
    Fetch(Op.OP_DIVIDE)
    /\ Commit(ExecBinary(heap, vm, Op.OP_DIVIDE), shadow, Did("OP_DIVIDE"))

DoGreater ==
    Fetch(Op.OP_GREATER)
    /\ Commit(ExecBinary(heap, vm, Op.OP_GREATER), shadow, Did("OP_GREATER"))

DoLess ==
    Fetch(Op.OP_LESS) /\ Commit(ExecBinary(heap, vm, Op.OP_LESS), shadow, Did("OP_LESS"))

DoNil == Fetch(Op.OP_NIL) /\ Commit(ExecLiteral(heap, vm, Nil), shadow, Did("OP_NIL"))

DoTrue == Fetch(Op.OP_TRUE) /\ Commit(ExecLiteral(heap, vm, BoolV(TRUE)), shadow, Did("OP_TRUE"))

DoFalse ==
    Fetch(Op.OP_FALSE) /\ Commit(ExecLiteral(heap, vm, BoolV(FALSE)), shadow, Did("OP_FALSE"))

DoNot == Fetch(Op.OP_NOT) /\ Commit(ExecNot(heap, vm), shadow, Did("OP_NOT"))

DoEqual == Fetch(Op.OP_EQUAL) /\ Commit(ExecEqual(heap, vm), shadow, Did("OP_EQUAL"))

DoPrint == Fetch(Op.OP_PRINT) /\ Commit(ExecPrint(heap, vm), shadow, Did("OP_PRINT"))

DoPop == Fetch(Op.OP_POP) /\ Commit(ExecPop(heap, vm), shadow, Did("OP_POP"))

DoDefineGlobal ==
    Fetch(Op.OP_DEFINE_GLOBAL)
    /\ Commit(ExecDefineGlobal(heap, vm),
              TrackGlobal(shadow, as_obj(ConstantAt(heap, vm, 1)), Peek(vm, 0)),
              Did("OP_DEFINE_GLOBAL"))

DoGetGlobal ==
    Fetch(Op.OP_GET_GLOBAL) /\ Commit(ExecGetGlobal(heap, vm), shadow, Did("OP_GET_GLOBAL"))

DoSetGlobal ==
    Fetch(Op.OP_SET_GLOBAL)
    /\ Commit(ExecSetGlobal(heap, vm),
              IF Defined(shadow, as_obj(ConstantAt(heap, vm, 1)))
              THEN TrackGlobal(shadow, as_obj(ConstantAt(heap, vm, 1)), Peek(vm, 0))
              ELSE shadow,
              Did("OP_SET_GLOBAL"))

DoGetLocal ==
    /\ Fetch(Op.OP_GET_LOCAL)
    /\ LET ids == OpenAt(shadow, CurFrame(vm).slots + ByteAt(heap, vm, 1))
       IN Commit(ExecGetLocal(heap, vm), shadow,
                 IF ids = {} THEN Did("OP_GET_LOCAL")
                 ELSE DidRead("OP_GET_LOCAL", shadow.vars[CHOOSE id \in ids : TRUE]))

DoSetLocal ==
    /\ Fetch(Op.OP_SET_LOCAL)
    /\ Commit(ExecSetLocal(heap, vm),
              TrackStore(shadow, OpenAt(shadow, CurFrame(vm).slots + ByteAt(heap, vm, 1)),
                         Peek(vm, 0)),
              Did("OP_SET_LOCAL"))

\* what the native clock returns
Clocks == {NumberV(0), NumberV(1)}

DoCall ==
    /\ Fetch(Op.OP_CALL)
    /\ \E clock \in Clocks :
         LET arg_count == ByteAt(heap, vm, 1)
             callee == Peek(vm, arg_count)
         IN Commit(ExecCall(heap, vm, clock), shadow,
                   [Did("OP_CALL") EXCEPT
                       !.a = callee,
                       !.arg_count = arg_count,
                       !.arity = IF is_obj_type(heap, callee, "Closure")
                                 THEN heap[heap[as_obj(callee)].function].arity
                                 ELSE -1])

DoClosure ==
    /\ Fetch(Op.OP_CLOSURE)
    /\ LET n == heap[as_obj(ConstantAt(heap, vm, 1))].upvalue_count
       IN \E ks \in [1..n -> 0..OpenCount + n] :
             Commit(ExecClosure(heap, vm, ks),
                    TrackCaptures(shadow, heap, vm, Len(heap) + 1, 0),
                    Did("OP_CLOSURE"))

DoGetUpvalue ==
    /\ Fetch(Op.OP_GET_UPVALUE)
    /\ Commit(ExecGetUpvalue(heap, vm), shadow,
              DidRead("OP_GET_UPVALUE",
                      shadow.vars[RefOf(shadow, CurFrame(vm).closure, ByteAt(heap, vm, 1)).id]))

DoSetUpvalue ==
    /\ Fetch(Op.OP_SET_UPVALUE)
    /\ Commit(ExecSetUpvalue(heap, vm),
              TrackStore(shadow,
                         {RefOf(shadow, CurFrame(vm).closure, ByteAt(heap, vm, 1)).id},
                         Peek(vm, 0)),
              Did("OP_SET_UPVALUE"))

DoCloseUpvalue ==
    /\ Fetch(Op.OP_CLOSE_UPVALUE)
    /\ \E k \in 0..OpenCount :
          Commit(ExecCloseUpvalue(heap, vm, k), TrackClose(shadow, vm, stack_top(vm) - 1),
                 Did("OP_CLOSE_UPVALUE"))

DoJumpIfFalse ==
    Fetch(Op.OP_JUMP_IF_FALSE)
    /\ Commit(ExecJumpIfFalse(heap, vm), shadow, Did("OP_JUMP_IF_FALSE"))

DoJump == Fetch(Op.OP_JUMP) /\ Commit(ExecJump(heap, vm), shadow, Did("OP_JUMP"))

DoLoop == Fetch(Op.OP_LOOP) /\ Commit(ExecLoop(heap, vm), shadow, Did("OP_LOOP"))

Next ==
    \/ DoReturn
    \/ DoConstant
    \/ DoNegate
    \/ DoAdd
    \/ DoSubtract
    \/ DoMultiply
    \/ DoDivide
    \/ DoGreater
    \/ DoLess
    \/ DoNil
    \/ DoTrue
    \/ DoFalse
    \/ DoNot
    \/ DoEqual
    \/ DoPrint
    \/ DoPop
    \/ DoDefineGlobal
    \/ DoGetGlobal
    \/ DoSetGlobal
    \/ DoGetLocal
    \/ DoSetLocal
    \/ DoCall
    \/ DoClosure
    \/ DoGetUpvalue
    \/ DoSetUpvalue
    \/ DoCloseUpvalue
    \/ DoJumpIfFalse
    \/ DoJump
    \/ DoLoop

Started ==
    [op |-> "interpret", a |-> Nil, b |-> Nil, depth |-> 0, frame_count |-> 0,
     ip |-> 0, slots |-> 0,
     tracked |-> FALSE, open |-> FALSE, expected |-> Nil, arg_count |-> 0, arity |-> -1]

Init ==
    \E p \in Programs :
       \E b \in {Boot(p)} :
       /\ program = p
       /\ heap = b.heap
       /\ strings = b.table
       /\ vm = b.vm
       /\ table = TableNew
       /\ shadow = [NoHistory EXCEPT !.globals = Globals(b.vm.globals)]
       /\ ret = Started

Spec == Init /\ [][Next]_vars

-----------------------------------------------------------------------------
(* Claims about the running VM *)

\* the content of a string value: its characters without the final NUL
Content(h, val) == SubSeq(h[as_obj(val)].chars, 1, Len(h[as_obj(val)].chars) - 1)

Running == vm.status = "running"

(* C2: Shared-upvalue semantics.  While a captured local is open, a        *)
(* GET_LOCAL of its slot and a GET_UPVALUE of it in any closure read the   *)
(* value last stored into the variable, by SET_LOCAL or by SET_UPVALUE.    *)
C2_SharedWhileOpen ==
    (Running /\ ret.op \in {"OP_GET_LOCAL", "OP_GET_UPVALUE"} /\ ret.tracked /\ ret.open)
        => Peek(vm, 0) = ret.expected

\* a closure reads a captured local that is still open
C2_ReadWhileOpen ==
    Running /\ ret.op = "OP_GET_UPVALUE" /\ ret.tracked /\ ret.open

(* C3: Upvalue closing.  After the frame owning a captured local returned, *)
(* GET_UPVALUE reads the value the variable last held on the stack or the  *)
(* value a later SET_UPVALUE stored, whatever reuses the slot; the counter *)
(* closure prints 1 then 2.                                                *)
C3_ClosedKeepsLast ==
    /\ (Running /\ ret.op = "OP_GET_UPVALUE" /\ ret.tracked /\ ~ret.open)
          => Peek(vm, 0) = ret.expected
    /\ (program = CounterProgram /\ vm.status = "ok")
          => vm.out = <<NumberV(1), NumberV(2)>>

\* a closure reads a captured local after its frame returned
C3_ReadWhenClosed ==
    Running /\ ret.op = "OP_GET_UPVALUE" /\ ret.tracked /\ ~ret.open

(* C5: Every runtime error ends the run with the error result and the      *)
(* operand stack reset to empty; no instruction is dispatched after it.    *)
C5_ErrorEndsRun ==
    vm.err.msg # "" => (vm.status = "error" /\ stack_top(vm) = 0)

\* a runtime error was reported
C5_ErrorReported == vm.err.msg # ""

(* C6: Call arity.  A CALL of a closure with an argument count other than  *)
(* the function's arity ends the run with the runtime error that reports   *)
(* the expected and the actual count.                                      *)
C6_ArityError ==
    (ret.op = "OP_CALL" /\ ret.arity >= 0 /\ ret.arg_count # ret.arity)
        => (vm.status = "error"
            /\ vm.err = Message("Expected arguments but got", ret.arity, ret.arg_count))

\* a closure was called with the wrong number of arguments
C6_WrongCount == ret.op = "OP_CALL" /\ ret.arity >= 0 /\ ret.arg_count # ret.arity

(* C7: Stack depth.  Endless recursion never takes frame_count past        *)
(* FRAMES_MAX and never crashes: the run ends, and only with the "Stack    *)
(* overflow." runtime error.                                               *)
C7_StackOverflow ==
    program \in RecursionPrograms =>
        /\ vm.frame_count <= FRAMES_MAX
        /\ vm.status # "panic"
        /\ (~Running => (vm.status = "error" /\ vm.err.msg = "Stack overflow."))

\* the recursion was stopped
C7_RecursionEnded == program \in RecursionPrograms /\ ~Running

(* C8: ADD replaces two numbers by their sum and two strings by a string   *)
(* whose content is the left content followed by the right content; any    *)
(* other pair of operands ends the run with a runtime error.               *)
C8_Add ==
    ret.op = "OP_ADD" =>
        IF is_number(ret.a) /\ is_number(ret.b)
        THEN /\ Running
             /\ stack_top(vm) = ret.depth - 1
             /\ Peek(vm, 0) = NumberV(ret.a.repr + ret.b.repr)
        ELSE IF is_string(heap, ret.a) /\ is_string(heap, ret.b)
        THEN /\ Running
             /\ stack_top(vm) = ret.depth - 1
             /\ is_string(heap, Peek(vm, 0))
             /\ Content(heap, Peek(vm, 0)) = Content(heap, ret.a) \o Content(heap, ret.b)
        ELSE vm.status = "error"

\* two different non-empty strings were added
C8_Concatenated ==
    /\ ret.op = "OP_ADD" /\ Running
    /\ is_string(heap, ret.a) /\ is_string(heap, ret.b)
    /\ Content(heap, ret.a) # <<>> /\ Content(heap, ret.b) # <<>>
    /\ Content(heap, ret.a) # Content(heap, ret.b)

(* C9: Two string values the program holds that have equal contents are    *)
(* the same heap object, and EQUAL on two strings is true exactly when     *)
(* their contents are equal.                                               *)
C9_EqualContentsSameObject ==
    /\ \A i, j \in 1..stack_top(vm) :
          (is_string(heap, vm.stack[i]) /\ is_string(heap, vm.stack[j])
           /\ Content(heap, vm.stack[i]) = Content(heap, vm.stack[j]))
              => vm.stack[i] = vm.stack[j]
    /\ (ret.op = "OP_EQUAL" /\ Running /\ is_string(heap, ret.a) /\ is_string(heap, ret.b))
          => Peek(vm, 0) = BoolV(Content(heap, ret.a) = Content(heap, ret.b))

\* EQUAL compared two strings of equal content
C9_ComparedEqualContents ==
    /\ ret.op = "OP_EQUAL" /\ is_string(heap, ret.a) /\ is_string(heap, ret.b)
    /\ Content(heap, ret.a) = Content(heap, ret.b)

BinaryOpNames == {"OP_SUBTRACT", "OP_MULTIPLY", "OP_DIVIDE", "OP_GREATER", "OP_LESS"}

(* C10: SUBTRACT, MULTIPLY, DIVIDE, GREATER and LESS on two numbers pop    *)
(* both and push the one result, and NEGATE on a number replaces it by its *)
(* negation; with any other operand the run ends with a runtime error and  *)
(* nothing is computed.                                                    *)
C10_NumericOperands ==
    /\ ret.op \in BinaryOpNames =>
          IF is_number(ret.a) /\ is_number(ret.b)
          THEN /\ Running
               /\ stack_top(vm) = ret.depth - 1
               /\ Peek(vm, 0) = Arith(Op[ret.op], ret.a.repr, ret.b.repr)
          ELSE vm.status = "error" /\ stack_top(vm) = 0
    /\ ret.op = "OP_NEGATE" =>
          IF is_number(ret.b)
          THEN /\ Running
               /\ stack_top(vm) = ret.depth
               /\ Peek(vm, 0) = NumberV(0 - ret.b.repr)
          ELSE vm.status = "error" /\ stack_top(vm) = 0

\* a comparison found a number below a value that is not a number
C10_RejectedOperand ==
    /\ ret.op \in {"OP_GREATER", "OP_LESS"}
    /\ is_number(ret.b) /\ ~is_number(ret.a)
    /\ vm.status = "error"

\* the 16-bit operand of the jump instruction that ret records
OperandAt(h, v) ==
    read_short(CurChunk(h, v).code[ret.ip + 2], CurChunk(h, v).code[ret.ip + 3])

(* C15: RETURN from a frame that is not the outermost takes one frame    *)
(* off, leaves the stack one slot above the returning frame's base slot    *)
(* with the value returned in that slot, and the caller goes on right      *)
(* after its CALL; RETURN from the outermost frame ends the run with Ok.   *)
C15_Return ==
    ret.op = "OP_RETURN" =>
        IF ret.frame_count > 1
        THEN /\ Running
             /\ vm.frame_count = ret.frame_count - 1
             /\ stack_top(vm) = ret.slots + 1
             /\ Peek(vm, 0) = ret.b
             /\ CurFrame(vm).ip >= 2
             /\ CurChunk(heap, vm).code[CurFrame(vm).ip - 1] = Op.OP_CALL
        ELSE vm.status = "ok"

\* a function called with arguments returned to its caller
C15_ReturnedOverArguments ==
    /\ ret.op = "OP_RETURN" /\ Running
    /\ ret.frame_count > 1
    /\ ret.depth > ret.slots + 2

(* C16: CALL looks at the value arg_count slots below the top.  A closure  *)
(* called with as many arguments as its arity, below the frame limit, gets *)
(* a new frame with ip 0 whose base slot is the callee's slot, the stack   *)
(* unchanged; a native gets no frame, and the callee and its arguments are *)
(* replaced by its one result; any other value ends the run with the       *)
(* runtime error "Can only call functions and classes."                    *)
C16_CallDispatch ==
    ret.op = "OP_CALL" =>
        IF is_obj_type(heap, ret.a, "Closure")
        THEN (ret.arg_count = ret.arity /\ ret.frame_count < FRAMES_MAX) =>
                /\ Running
                /\ vm.frame_count = ret.frame_count + 1
                /\ CurFrame(vm).ip = 0
                /\ CurFrame(vm).closure = as_obj(ret.a)
                /\ CurFrame(vm).slots = ret.depth - ret.arg_count - 1
                /\ stack_top(vm) = ret.depth
        ELSE IF is_obj_type(heap, ret.a, "Native")
        THEN /\ Running
             /\ vm.frame_count = ret.frame_count
             /\ stack_top(vm) = ret.depth - ret.arg_count
             /\ Peek(vm, 0) \in Clocks
        ELSE /\ vm.status = "error"
             /\ vm.err.msg = "Can only call functions and classes."

\* a native was called with arguments
C16_NativeCalledWithArguments ==
    /\ ret.op = "OP_CALL" /\ Running
    /\ is_obj_type(heap, ret.a, "Native")
    /\ ret.arg_count > 0

(* C11: Only nil and the boolean false are falsey: every number, 0         *)
(* included, and every object, the empty string included, is truthy.  NOT  *)
(* replaces the top of the stack by the boolean that says whether it was   *)
(* nil or false, and JUMP_IF_FALSE leaves the stack as it is and moves ip  *)
(* by its operand exactly when the top of the stack is nil or false.       *)
C11_Falsiness ==
    /\ \A i \in 1..stack_top(vm) :
          is_falsey(vm.stack[i]) <=> vm.stack[i] \in {Nil, BoolV(FALSE)}
    /\ ret.op = "OP_NOT" =>
          /\ Running
          /\ stack_top(vm) = ret.depth
          /\ Peek(vm, 0) = BoolV(ret.b \in {Nil, BoolV(FALSE)})
    /\ ret.op = "OP_JUMP_IF_FALSE" =>
          /\ Running
          /\ stack_top(vm) = ret.depth
          /\ Peek(vm, 0) = ret.b
          /\ CurFrame(vm).ip = IF ret.b \in {Nil, BoolV(FALSE)}
                               THEN ret.ip + 3 + OperandAt(heap, vm)
                               ELSE ret.ip + 3

\* JUMP_IF_FALSE found the number 0 and went on, with an operand that
\* would have moved it
C11_ZeroIsTruthy ==
    /\ ret.op = "OP_JUMP_IF_FALSE" /\ ret.b = NumberV(0)
    /\ OperandAt(heap, vm) > 0
    /\ CurFrame(vm).ip = ret.ip + 3

(* C12: EQUAL never ends the run: whatever the two operands are it pops    *)
(* both and pushes one boolean, which is true exactly when they have the   *)
(* same type tag and are both nil, the same boolean, the same number or    *)
(* the same object (the same pointer).                                     *)
C12_EqualNeverFails ==
    ret.op = "OP_EQUAL" =>
        /\ Running
        /\ stack_top(vm) = ret.depth - 1
        /\ Peek(vm, 0) = BoolV(/\ ret.a.ty = ret.b.ty
                               /\ \/ ret.a.ty = "Nil"
                                  \/ ret.a.repr = ret.b.repr)

\* EQUAL found two values of different tags, and EQUAL found two
\* different objects
C12_ComparedAcrossTags ==
    /\ ret.op = "OP_EQUAL" /\ Running
    /\ \/ ret.a = Nil /\ ret.b = BoolV(FALSE)
       \/ is_obj(ret.a) /\ is_number(ret.b) /\ ret.a.repr = ret.b.repr
    /\ Peek(vm, 0) = BoolV(FALSE)

\* The parse the precedence ladder prescribes for toks[lo..hi], numbers at
\* the odd places and operators between them: the root is the operator
\* lowest on the ladder, the last of them when several are (operators of
\* equal precedence associate to the left); the result is in postfix order.
Ladder(ty) ==
    CASE ty \in {"==", "!="} -> 1
      [] ty \in {"<", "<=", ">", ">="} -> 2
      [] ty \in {"+", "-"} -> 3
      [] ty \in {"*", "/"} -> 4

Root(toks, lo, hi) ==
    CHOOSE i \in {j \in lo..hi : j % 2 = 0} :
        \A j \in {k \in lo..hi : k % 2 = 0} :
            \/ Ladder(toks[i].ty) < Ladder(toks[j].ty)
            \/ Ladder(toks[i].ty) = Ladder(toks[j].ty) /\ i >= j

RECURSIVE Postfix(_, _, _)
Postfix(toks, lo, hi) ==
    IF lo >= hi THEN <<toks[lo]>>
    ELSE Postfix(toks, lo, Root(toks, lo, hi) - 1)
         \o Postfix(toks, Root(toks, lo, hi) + 1, hi)
         \o <<toks[Root(toks, lo, hi)]>>

\* the bytes of a postfix sequence: CONSTANT with the next pool index for a
\* number, the operator's opcodes for an operator
RECURSIVE PostfixCode(_, _, _)
PostfixCode(post, i, constants) ==
    IF i > Len(post) THEN <<>>
    ELSE IF post[i].ty = "Number"
    THEN <<Op.OP_CONSTANT, constants>> \o PostfixCode(post, i + 1, constants + 1)
    ELSE BinaryOps(post[i].ty) \o PostfixCode(post, i + 1, constants)

\* the value of a postfix sequence of numbers, +, - and *
RECURSIVE PostfixValue(_, _, _)
PostfixValue(post, i, stack) ==
    IF i > Len(post) THEN stack[Len(stack)]
    ELSE IF post[i].ty = "Number" THEN PostfixValue(post, i + 1, Append(stack, post[i].n))
    ELSE PostfixValue(post, i + 1,
            Append(SubSeq(stack, 1, Len(stack) - 2),
                   CASE post[i].ty = "+" -> stack[Len(stack) - 1] + stack[Len(stack)]
                     [] post[i].ty = "-" -> stack[Len(stack) - 1] - stack[Len(stack)]
                     [] post[i].ty = "*" -> stack[Len(stack) - 1] * stack[Len(stack)]))

Arithmetic(toks) == \A i \in 1..Len(toks) : toks[i].ty \in {"Number", "+", "-", "*"}
TokensOf(p) == p[1].body[1].a.toks
ScriptCode == FrameFunction(heap, vm.frames[1]).chunk.code

(* C21: Operator precedence in emitted bytecode.  For an expression        *)
(* statement of number literals and binary operators the compiler emits    *)
(* the operands and operators in the postfix order of the parse in which   *)
(* an operator higher on the ladder binds tighter and operators of equal   *)
(* precedence associate to the left, followed by POP; when the operators   *)
(* are +, - and * the run ends without a runtime error and the value       *)
(* popped is the value of that parse (7 for 1 + 2 * 3).                    *)
C21_Precedence ==
    program \in TokenPrograms =>
        /\ ScriptCode = PostfixCode(Postfix(TokensOf(program), 1, Len(TokensOf(program))), 1, 0)
                        \o <<Op.OP_POP, Op.OP_NIL, Op.OP_RETURN>>
        /\ Arithmetic(TokensOf(program)) =>
              /\ vm.status # "error"
              /\ ret.op = "OP_POP" =>
                    ret.b = NumberV(PostfixValue(Postfix(TokensOf(program), 1,
                                                         Len(TokensOf(program))), 1, <<>>))

\* 1 + 2 * 3; was compiled to CONSTANT, CONSTANT, CONSTANT, MULTIPLY, ADD,
\* POP and its POP found 7
C21_OnePlusTwoTimesThree ==
    /\ program = <<Script(<<SExpr(ETokens(<<NumberToken(1), Token("+"), NumberToken(2),
                                           Token("*"), NumberToken(3)>>))>>)>>
    /\ ScriptCode = <<Op.OP_CONSTANT, 0, Op.OP_CONSTANT, 1, Op.OP_CONSTANT, 2,
                      Op.OP_MULTIPLY, Op.OP_ADD, Op.OP_POP, Op.OP_NIL, Op.OP_RETURN>>
    /\ ret.op = "OP_POP" /\ ret.b = NumberV(7)

\* the offsets in the script's code at which a statement of the script
\* begins or the last one ends
ScriptBoundaries ==
    {Len(CompileRange(program, ParserNew, program[Len(program)].body, 1, k).code) :
        k \in 0..Len(program[Len(program)].body)}

(* C29: Statements are stack-neutral.  Whenever the script stands between  *)
(* two of its statements (expression statement, print, if with or without  *)
(* else, while, block, declaration of a global), the stack holds what it    *)
(* held before the first statement: the script's closure alone.             *)
C29_StatementsStackNeutral ==
    (vm.status = "running" /\ vm.frame_count = 1 /\ CurFrame(vm).ip \in ScriptBoundaries)
        => stack_top(vm) = 1

\* { if (true) nil; var x = n; print x; } printed something other than n:
\* slot 1, which the compiler gave to x, holds the condition
C29_LocalReadAnotherSlot ==
    \E n \in Numbers :
        /\ program = LocalAfterIf(ETrue, n)
        /\ ret.op = "OP_PRINT" /\ ret.b # NumberV(n)

(* C30: Operand stack bound.  stack_top never exceeds STACK_MAX, and no    *)
(* instruction other than the CALL that makes the FRAMES_MAX test of        *)
(* VM::call finds the stack full and fails: a recursion reaches that test   *)
(* before the operand stack is exhausted, whatever the number of its        *)
(* parameters.                                                              *)
C30_OperandStackBound ==
    /\ stack_top(vm) <= STACK_MAX
    /\ ~(vm.status = "panic" /\ ret.depth = STACK_MAX /\ ret.op # "OP_CALL")

\* a GET_LOCAL of the recursion found all STACK_MAX slots in use before
\* the CALL that would have entered frame FRAMES_MAX + 1 was reached
C30_StackFullBeforeFramesMax ==
    /\ program = Recursion(MaxParams)
    /\ vm.status = "panic" /\ ret.op = "OP_GET_LOCAL"
    /\ ret.depth = STACK_MAX /\ ret.frame_count = FRAMES_MAX

\* the upvalue object a closure holds at an upvalue index, and the stack
\* slots of the variables that the closures holding an upvalue object
\* captured through it
UpvalueOf(r) == heap[r.closure].upvalues[r.index + 1]
SlotsOf(sh, h, u) == {sh.vars[r.id].slot : r \in {x \in sh.refs : h[x.closure].upvalues[x.index + 1] = u}}

(* C31: Upvalue cell sharing.  Two closures that captured the same local   *)
(* while it was open hold the same upvalue object, and two closures that    *)
(* captured locals of two different stack slots, both still open, hold      *)
(* different upvalue objects, whatever values the slots hold.               *)
C31_UpvalueCellSharing ==
    \A r1 \in shadow.refs : \A r2 \in shadow.refs :
        /\ r1.id = r2.id => UpvalueOf(r1) = UpvalueOf(r2)
        /\ (/\ shadow.vars[r1.id].open /\ shadow.vars[r2.id].open
            /\ shadow.vars[r1.id].slot # shadow.vars[r2.id].slot)
              => UpvalueOf(r1) # UpvalueOf(r2)

\* the closures over x and over y, two locals holding the same value, hold
\* one upvalue object
C31_TwoSlotsOneCell ==
    /\ \E a \in Numbers, first \in 1..2 : program = TwoVariables(a, a, first)
    /\ \E r1 \in shadow.refs : \E r2 \in shadow.refs :
          /\ shadow.vars[r1.id].open /\ shadow.vars[r2.id].open
          /\ shadow.vars[r1.id].slot # shadow.vars[r2.id].slot
          /\ UpvalueOf(r1) = UpvalueOf(r2)

\* the open-upvalues list of the VM
OpenUpvalues == OpenList(heap, vm.open_upvalues)

(* C32: Open-upvalue list order.  The open-upvalues list is strictly       *)
(* descending by captured stack slot from head to tail: an upvalue nearer   *)
(* the head stands for a higher slot than any upvalue after it, and no two  *)
(* upvalues of the list stand for the same slot.                            *)
C32_OpenListDescending ==
    \A i \in 1..Len(OpenUpvalues) : \A j \in (i + 1)..Len(OpenUpvalues) :
        \A s1 \in SlotsOf(shadow, heap, OpenUpvalues[i]) :
            \A s2 \in SlotsOf(shadow, heap, OpenUpvalues[j]) : s1 > s2

\* the closure over y (slot 2) was created before the closure over x
\* (slot 1), and the upvalue of x is linked before the upvalue of y
C32_LowerSlotAtHead ==
    /\ \E a \in Numbers, b \in Numbers : a # b /\ program = TwoVariables(a, b, 2)
    /\ Len(OpenUpvalues) = 2
    /\ SlotsOf(shadow, heap, OpenUpvalues[1]) = {vm.frames[2].slots + 1}
    /\ SlotsOf(shadow, heap, OpenUpvalues[2]) = {vm.frames[2].slots + 2}
    /\ heap[OpenUpvalues[1]].next = OpenUpvalues[2]

\* close_upvalue(t) of the instruction a step executes: t is the top slot
\* for CLOSE_UPVALUE and the base slot of the returning frame for RETURN
Closes(step) == step.op \in {"OP_CLOSE_UPVALUE", "OP_RETURN"}
Threshold(step) == IF step.op = "OP_RETURN" THEN step.slots ELSE step.depth - 1
Removed == {u \in 1..Len(heap) : (\E i \in 1..Len(OpenUpvalues) : OpenUpvalues[i] = u)
                                 /\ \A i \in 1..Len(OpenList(heap', vm'.open_upvalues)) :
                                        OpenList(heap', vm'.open_upvalues)[i] # u}

(* C33: Closing threshold.  After close_upvalue(t) no upvalue of the open  *)
(* list stands for a slot >= t, each upvalue taken off the list holds in   *)
(* `closed` the value its slot had at that moment, and every upvalue that   *)
(* stood for slots below t only is still on the list with its location      *)
(* unchanged.                                                               *)
C33_ClosingThreshold ==
    [][Closes(ret') =>
         /\ \A i \in 1..Len(OpenList(heap', vm'.open_upvalues)) :
               \A s \in SlotsOf(shadow, heap, OpenList(heap', vm'.open_upvalues)[i]) :
                   s < Threshold(ret')
         /\ \A u \in Removed : \A s \in SlotsOf(shadow, heap, u) :
               heap'[u].closed = vm.stack[s + 1]
         /\ \A i \in 1..Len(OpenUpvalues) :
               (\A s \in SlotsOf(shadow, heap, OpenUpvalues[i]) : s < Threshold(ret'))
                  => /\ \E j \in 1..Len(OpenList(heap', vm'.open_upvalues)) :
                           OpenList(heap', vm'.open_upvalues)[j] = OpenUpvalues[i]
                     /\ heap'[OpenUpvalues[i]].location = heap[OpenUpvalues[i]].location]_vars

\* a RETURN left on the open list an upvalue of a local of the frame that
\* returned
C33_OpenAfterReturn ==
    /\ ret.op = "OP_RETURN" /\ vm.status = "running"
    /\ \E i \in 1..Len(OpenUpvalues) :
          \E s \in SlotsOf(shadow, heap, OpenUpvalues[i]) : s >= ret.slots

\* the global an instruction at the fetch names
GlobalNamed == as_obj(ConstantAt(heap, vm, 1))

(* C34: Undefined globals.  GET_GLOBAL or SET_GLOBAL of a name that was     *)
(* never defined ends the run with the runtime error "Undefined variable"   *)
(* and leaves the defined globals and their values as they were; GET_GLOBAL *)
(* of a defined name pushes the value its last DEFINE_GLOBAL or SET_GLOBAL  *)
(* gave it; after every instruction the globals table holds the defined     *)
(* globals with those values.                                               *)
C34_UndefinedGlobals ==
    [][/\ (ret'.op \in {"OP_GET_GLOBAL", "OP_SET_GLOBAL"} /\ ~Defined(shadow, GlobalNamed))
            => /\ vm'.status = "error" /\ vm'.err.msg = "Undefined variable"
               /\ Globals(vm'.globals) = Globals(vm.globals)
       /\ (ret'.op = "OP_GET_GLOBAL" /\ Defined(shadow, GlobalNamed))
            => /\ vm'.status = "running"
               /\ [name |-> GlobalNamed, val |-> Peek(vm', 0)] \in shadow.globals
       /\ ret'.op \in {"OP_GET_GLOBAL", "OP_SET_GLOBAL", "OP_DEFINE_GLOBAL"}
            => Globals(vm'.globals) = shadow'.globals]_vars

\* x = b; failed for an undefined x and left clock, the one global defined
C34_FailedSetLeftGlobals ==
    /\ ret.op = "OP_SET_GLOBAL" /\ vm.status = "error"
    /\ vm.err.msg = "Undefined variable"
    /\ Cardinality(Globals(vm.globals)) = 1
    /\ Tombstones(vm.globals) # {}

(* C35: Runtime stack trace.  The trace of a runtime error walks exactly    *)
(* the frames that were live when the failing instruction was fetched (one  *)
(* line each), and the line it reads for each of them exists, also when the *)
(* error is found inside call().                                            *)
C35_TraceOfLiveFrames ==
    vm.err.msg # "" =>
        /\ vm.frame_count = ret.frame_count
        /\ \A i \in 1..vm.frame_count : TraceReadable(heap, vm, i)

\* the trace of an arity mismatch walked one frame more than were live
C35_TraceReadDeadFrame ==
    /\ vm.err.msg = "Expected arguments but got"
    /\ vm.frame_count = ret.frame_count + 1
    /\ ~TraceReadable(heap, vm, vm.frame_count)

\* Chunk::disassemble_instruction: the offset it returns, or a panic when
\* it indexes past the code, the lines or the constants.  simple_instruction
\* returns offset + 1, constant_instruction and byte_instruction offset + 2,
\* jump_instruction offset + 3; the CLOSURE arm returns offset + 2; every
\* other byte takes the arm of the unknown opcode, offset + 1.
Disassembled(panic, next) == [panic |-> panic, next |-> next]
disassemble_instruction(chunk, offset) ==
    IF offset >= Len(chunk.lines) \/ offset >= Len(chunk.code)
    THEN Disassembled(TRUE, offset)
    ELSE IF chunk.code[offset + 1] \in
              {Op.OP_CONSTANT, Op.OP_DEFINE_GLOBAL, Op.OP_GET_GLOBAL, Op.OP_SET_GLOBAL,
               Op.OP_CLOSURE}
    THEN (IF offset + 1 >= Len(chunk.code) THEN Disassembled(TRUE, offset)
          ELSE Disassembled(chunk.code[offset + 2] >= Len(chunk.constants), offset + 2))
    ELSE IF chunk.code[offset + 1] \in {Op.OP_GET_LOCAL, Op.OP_SET_LOCAL, Op.OP_CALL}
    THEN Disassembled(offset + 1 >= Len(chunk.code), offset + 2)
    ELSE IF chunk.code[offset + 1] \in {Op.OP_JUMP, Op.OP_JUMP_IF_FALSE, Op.OP_LOOP}
    THEN Disassembled(offset + 2 >= Len(chunk.code), offset + 3)
    ELSE Disassembled(FALSE, offset + 1)

\* Chunk::disassemble from offset i: the offsets it handed to
\* disassemble_instruction, and whether one of the calls panicked
RECURSIVE disassemble(_, _, _)
disassemble(chunk, i, offsets) ==
    IF i >= Len(chunk.code) THEN [panic |-> FALSE, offsets |-> offsets]
    ELSE IF disassemble_instruction(chunk, i).panic
    THEN [panic |-> TRUE, offsets |-> offsets \cup {i}]
    ELSE disassemble(chunk, disassemble_instruction(chunk, i).next, offsets \cup {i})

Jumps == {"OP_JUMP", "OP_JUMP_IF_FALSE", "OP_LOOP"}

(* C36: Disassembler and VM agree on instruction length.  Disassembling    *)
(* the chunk the VM runs never indexes past it and visits the offset of     *)
(* every instruction the VM fetches, and after an instruction that neither  *)
(* jumps nor changes the frame the VM's ip is the offset that               *)
(* disassemble_instruction returns for it.                                  *)
C36_DisassemblerAgrees ==
    [][vm.status = "running" =>
         /\ ~disassemble(CurChunk(heap, vm), 0, {}).panic
         /\ CurFrame(vm).ip \in disassemble(CurChunk(heap, vm), 0, {}).offsets
         /\ (/\ vm'.status = "running" /\ vm'.frame_count = vm.frame_count
             /\ ret'.op \notin Jumps)
               => CurFrame(vm').ip
                    = disassemble_instruction(CurChunk(heap, vm), CurFrame(vm).ip).next]_vars

\* the VM executed a GET_UPVALUE and stands two bytes after it, where the
\* disassembler has the next instruction one byte after it
C36_UpvalueOperandAsOpcode ==
    /\ ret.op = "OP_GET_UPVALUE" /\ vm.status = "running"
    /\ CurFrame(vm).ip = ret.ip + 2
    /\ disassemble_instruction(CurChunk(heap, vm), ret.ip).next = ret.ip + 1

\* the value val is what the literal x denotes
Denotes(h, val, x) ==
    CASE x.e = "num" -> val = NumberV(x.n)
      [] x.e = "str" -> is_string(h, val) /\ Content(h, val) = x.s
      [] x.e = "nil" -> val = Nil
      [] x.e = "true" -> val = BoolV(TRUE)
      [] x.e = "false" -> val = BoolV(FALSE)

\* print x; for a logical expression x
Logical(x) == <<Script(<<SPrint(x)>>)>>

\* `a and b` stops at a falsey a, `a or b` at a truthy a
ShortCircuits(x) == (x.e = "and") = (x.a.e \in {"nil", "false"})

\* the offsets of the bytecode of b in the script of Logical(x): after a,
\* JUMP_IF_FALSE, (JUMP,) POP and up to the PRINT, NIL, RETURN that end it
RightOffsets(x) ==
    (Len(CompileExpr(ParserNew, x.a).code) + (IF x.e = "and" THEN 4 ELSE 7))
        .. (Len(ScriptCode) - 4)

(* C37: Short-circuit operators.  `a and b` leaves a on the stack without  *)
(* executing the bytecode of b when a is falsey and otherwise leaves the    *)
(* value of b; `a or b` leaves a without executing the bytecode of b when   *)
(* a is truthy and otherwise leaves the value of b; either way the          *)
(* expression leaves exactly one value on the stack (above the script's     *)
(* closure), which is what the PRINT after it finds.                        *)
C37_ShortCircuit ==
    \A x \in {[e |-> op, a |-> c, b |-> d] : op \in {"and", "or"}, c \in Conditions,
                                             d \in Conditions} :
        program = Logical(x) =>
            /\ vm.status \notin {"error", "panic", "hung"}
            /\ ret.op = "OP_PRINT" =>
                  /\ ret.depth = 2
                  /\ Denotes(heap, ret.b, IF ShortCircuits(x) THEN x.a ELSE x.b)
            /\ (ShortCircuits(x) /\ Running /\ vm.frame_count = 1)
                  => CurFrame(vm).ip \notin RightOffsets(x)
            /\ (~ShortCircuits(x) /\ ret.op = "OP_PRINT") => ret.ip - 1 \in RightOffsets(x)

\* print nil and 1; printed nil, and print 0 or nil; stood in the PRINT
\* having printed 0
C37_LeftPrinted ==
    /\ ret.op = "OP_PRINT"
    /\ \/ program = Logical(EAnd(ENil, ENum(1))) /\ ret.b = Nil
       \/ program = Logical(EOr(ENum(0), ENil)) /\ ret.b = NumberV(0)

(* C40: Concatenation does not intern.  An ADD of two strings leaves the   *)
(* intern table of the VM as it was, entries, count and capacity, whether   *)
(* or not a string with the content of the result was interned.             *)
C40_ConcatenationLeavesStrings ==
    [][(ret'.op = "OP_ADD" /\ is_string(heap, ret'.a) /\ is_string(heap, ret'.b))
          => strings' = strings]_vars

\* an ADD of two strings pushed a string that is no key of the intern table
C40_ResultNotInterned ==
    /\ ret.op = "OP_ADD" /\ Running
    /\ is_string(heap, ret.a) /\ is_string(heap, ret.b)
    /\ is_string(heap, Peek(vm, 0))
    /\ \A i \in 1..Len(strings.entries) : strings.entries[i].key # as_obj(Peek(vm, 0))

-----------------------------------------------------------------------------
(* The allocation chains: Allocator::alloc (src/vm/src/memory.rs) and the  *)
(* parser's object list (Parser.objects).  `shadow[p]` is the `next` field *)
(* of the object heap[p] (0 is the null pointer); `table` holds the two    *)
(* chain roots: the allocator's root and the parser's objects.  The        *)
(* allocator allocates functions, the parser the strings KeyString(k).     *)

MaxObjects == 4

AllocInit ==
    /\ heap = <<>>
    /\ strings = TableNew
    /\ table = [root |-> 0, objects |-> 0]
    /\ shadow = <<>>
    /\ ret = [op |-> "new", ptr |-> 0, fresh |-> FALSE]
    /\ vm = VMIdle
    /\ program = <<>>

\* allocator.alloc(|next| FunctionObject::new(None, next))
AllocFunction ==
    /\ Len(heap) < MaxObjects
    /\ heap' = Append(heap, FunctionObject(0, 0, 0, Chunk(<<>>, <<>>)))
    /\ shadow' = Append(shadow, table.root)
    /\ table' = [table EXCEPT !.root = Len(heap) + 1]
    /\ ret' = [op |-> "alloc", ptr |-> Len(heap) + 1, fresh |-> TRUE]
    /\ UNCHANGED <<strings, vm, program>>

\* StringObject::new(chars, &mut self.table, self.objects): a new object's
\* next is the parser's objects
NewString(k, r) ==
    /\ ~r.hung
    /\ Len(r.heap) <= MaxObjects
    /\ heap' = r.heap
    /\ strings' = r.table
    /\ shadow' = IF Len(r.heap) > Len(heap) THEN Append(shadow, table.objects) ELSE shadow

\* Parser::string: the object returned becomes the parser's objects
ParserString(k) ==
    /\ \E r \in {StringNew(heap, strings, KeyString(k))} :
          /\ NewString(k, r)
          /\ table' = [table EXCEPT !.objects = r.ptr]
          /\ ret' = [op |-> "string", ptr |-> r.ptr, fresh |-> Len(r.heap) > Len(heap)]
    /\ UNCHANGED <<vm, program>>

\* Parser::identifier_constant: the parser's objects stay as they are
IdentifierConstant(k) ==
    /\ \E r \in {StringNew(heap, strings, KeyString(k))} :
          /\ NewString(k, r)
          /\ ret' = [op |-> "identifier", ptr |-> r.ptr, fresh |-> Len(r.heap) > Len(heap)]
    /\ UNCHANGED <<table, vm, program>>

AllocNext ==
    \/ AllocFunction
    \/ \E k \in Keys : ParserString(k)
    \/ \E k \in Keys : IdentifierConstant(k)

SpecAlloc == AllocInit /\ [][AllocNext]_vars

\* the objects met walking `next` from p, in order (the loop of
\* memory.rs test::it_works)
RECURSIVE Walk(_, _)
Walk(next, p) == IF p = 0 THEN <<>> ELSE <<p>> \o Walk(next, next[p])

Visited(next, p) == {Walk(next, p)[i] : i \in 1..Len(Walk(next, p))}
Allocated(h, ty) == {p \in 1..Len(h) : h[p].ty = ty}

(* C22: Allocation chain completeness.  Walking `next` from the            *)
(* allocator's root visits every object Allocator::alloc allocated exactly *)
(* once, and walking it from the parser's objects visits every object the  *)
(* compiler allocated exactly once, string constructions that returned an  *)
(* interned object included; n allocations give a chain of length n.       *)
C22_ChainComplete ==
    /\ Visited(shadow, table.root) = Allocated(heap, "Function")
    /\ Len(Walk(shadow, table.root)) = Cardinality(Allocated(heap, "Function"))
    /\ Visited(shadow, table.objects) = Allocated(heap, "String")
    /\ Len(Walk(shadow, table.objects)) = Cardinality(Allocated(heap, "String"))

\* Parser::string was handed an interned object and the walk from the
\* parser's objects no longer visits a string allocated after it
C22_ChainCutAtInterned ==
    /\ ret.op = "string" /\ ~ret.fresh
    /\ \E p \in Allocated(heap, "String") :
          p > ret.ptr /\ p \notin Visited(shadow, table.objects)

-----------------------------------------------------------------------------
(* The symbol interner: src/ast/src/intern.rs.  An interned &'static str   *)
(* is a pointer into one of the interner's buffers: [gen, start, len],     *)
(* gen the number of buffers retired to `full` before the buffer it points *)
(* into was made.  A String's bytes stay where they are when the String is *)
(* moved into `full`; pushing within its capacity does not move them.      *)

\* Interner::new: String::with_capacity(8) is taken to give capacity 8
InternerNew ==
    [map |-> <<>>, strings |-> <<>>, buf |-> <<>>, cap |-> 8, full |-> <<>>]

\* usize::next_power_of_two for the sizes that arise
NextPowerOfTwo(n) == CHOOSE p \in {2 ^ i : i \in 0..16} :
                        p >= n /\ \A q \in {2 ^ i : i \in 0..16} : q >= n => p <= q

Max(a, b) == IF a >= b THEN a ELSE b

\* the characters a pointer points at
Deref(db, ptr) ==
    SubSeq(IF ptr.gen < Len(db.full) THEN db.full[ptr.gen + 1] ELSE db.buf,
           ptr.start + 1, ptr.start + ptr.len)

\* (a variant: the slice taken from the start of the buffer)
alloc_from_start(db, name) ==
    LET retire == db.cap < Len(db.buf) + Len(name)
        db2 == IF retire
               THEN [db EXCEPT !.cap = NextPowerOfTwo(Max(db.cap, Len(name)) + 1),
                               !.buf = <<>>, !.full = Append(@, db.buf)]
               ELSE db
    IN [db |-> [db2 EXCEPT !.buf = @ \o name],
        ptr |-> [gen |-> Len(db2.full), start |-> 0,
                 len |-> Len(db2.buf) + Len(name)]]

\* Interner::alloc: [db, ptr]
alloc(db, name) ==
    LET retire == db.cap < Len(db.buf) + Len(name)
        db2 == IF retire
               THEN [db EXCEPT !.cap = NextPowerOfTwo(Max(db.cap, Len(name)) + 1),
                               !.buf = <<>>, !.full = Append(@, db.buf)]
               ELSE db
    IN [db |-> [db2 EXCEPT !.buf = @ \o name],
        ptr |-> [gen |-> Len(db2.full), start |-> Len(db2.buf), len |-> Len(name)]]

\* HashMap::get_key_value: the entries whose key has the contents of item
MapGet(db, item) == {i \in 1..Len(db.map) : Deref(db, db.map[i].key) = item}

\* the entry stored for a string allocated as r: the id is the map's length
Inserted(r, id) ==
    [db |-> [r.db EXCEPT !.map = Append(@, [key |-> r.ptr, id |-> id]),
                         !.strings = Append(@, r.ptr)],
     id |-> id]

\* Interner::intern: [db, id]
intern(db, item) ==
    IF MapGet(db, item) # {}
    THEN [db |-> db, id |-> db.map[CHOOSE i \in MapGet(db, item) : TRUE].id]
    ELSE Inserted(alloc(db, item), Len(db.map))

\* Interner::lookup
lookup(db, key) == Deref(db, db.strings[key + 1])

\* The symbols interned: "", "a", "bb", "ccc", ...
NumSymbols == 4
Symbol(k) == [i \in 1..k |-> 96 + k]
Symbols == 0..NumSymbols

\* `table` is the interner, `shadow` the symbols in order of first intern
SymbolsInit ==
    /\ heap = <<>>
    /\ strings = TableNew
    /\ table = InternerNew
    /\ shadow = <<>>
    /\ ret = [op |-> "new", key |-> 0, id |-> 0, str |-> <<>>]
    /\ vm = VMIdle
    /\ program = <<>>

Seen(k) == \E i \in 1..Len(shadow) : shadow[i] = k

\* interner.intern(Symbol(k))
DoIntern(k) ==
    /\ \E r \in {intern(table, Symbol(k))} :
          /\ table' = r.db
          /\ ret' = [op |-> "intern", key |-> k, id |-> r.id, str |-> Symbol(k)]
    /\ shadow' = IF Seen(k) THEN shadow ELSE Append(shadow, k)
    /\ UNCHANGED <<heap, strings, vm, program>>

\* interner.lookup(&SymbolId::id(id)) for an id intern returned
DoLookup(id) ==
    /\ id < Len(table.strings)
    /\ ret' = [op |-> "lookup", key |-> shadow[id + 1], id |-> id, str |-> lookup(table, id)]
    /\ UNCHANGED <<heap, strings, table, shadow, vm, program>>

SymbolsNext ==
    \/ \E k \in Symbols : DoIntern(k)
    \/ \E id \in 0..NumSymbols : DoLookup(id)

SpecSymbols == SymbolsInit /\ [][SymbolsNext]_vars

(* C23: Symbol interner.  intern(s) returns the position of s in the order *)
(* of first appearance, counted from 0 (so the same id every time for the  *)
(* same string, distinct ids for distinct strings, ids 0, 1, 2, ...), and  *)
(* lookup of an id intern returned gives back the string interned.         *)
C23_SymbolInterner ==
    /\ ret.op = "intern" =>
          /\ ret.id < Len(shadow) /\ shadow[ret.id + 1] = ret.key
          /\ lookup(table, ret.id) = Symbol(ret.key)
    /\ ret.op = "lookup" => ret.str = Symbol(ret.key)
    /\ \A i \in 1..Len(shadow) : intern(table, Symbol(shadow[i])).id = i - 1

\* a lookup of a string whose buffer was retired when a later string did
\* not fit, after a second intern of that string
C23_LookupInRetiredBuffer ==
    /\ ret.op = "lookup" /\ ret.str # <<>>
    /\ Len(table.full) > 0
    /\ table.strings[ret.id + 1].gen < Len(table.full)
    /\ table.strings[ret.id + 1].start > 0
    /\ Len(table.map) > ret.id + 1

-----------------------------------------------------------------------------
(* The compile specification: compile() applied to one source text.  The   *)
(* sources are scripts without functions or variables, so every constant   *)
(* is written by emit_constant and synchronize finds the ';' or the        *)
(* keyword it looks for at once.                                           *)

\* Chunk::jump_instruction: the target the disassembler prints for the
\* jump at offset
jump_instruction(code, sign, offset) ==
    offset + 3 + sign * (code[offset + 2] * 256 + code[offset + 3])

\* what the emitted code holds for a logged jump or loop: the operand as
\* the VM reads it, the target the disassembler prints and the ip the VM
\* has after taking the jump
Sign(kind) == IF kind = "loop" THEN -1 ELSE 1
JumpFound(code, e) ==
    [kind |-> e.kind, at |-> e.at, mark |-> e.mark,
     operand |-> read_short(code[e.at + 1], code[e.at + 2]),
     target |-> jump_instruction(code, Sign(e.kind), e.at - 1),
     ip |-> JumpTo(e.at - 1, Sign(e.kind),
                   read_short(code[e.at + 1], code[e.at + 2]))]

\* a logged make_constant and the operand byte in the emitted code
ConstantFound(code, e) ==
    [stored |-> e.kind = "constant", index |-> e.mark, byte |-> code[e.at + 1]]

Entries(st, kinds) == SelectSeq(st.log, LAMBDA e : e.kind \in kinds)
Found(st, kinds, F(_, _)) ==
    [j \in 1..Len(Entries(st, kinds)) |-> F(st.code, Entries(st, kinds)[j])]

\* compile: None when had_error, else Some(parser.end()); st is the parser
\* after the last declaration
Compiled(st) ==
    [op |-> "compile",
     result |-> IF st.had_error THEN "None" ELSE "Some",
     reported |-> Len(Entries(st, {"error"})),
     len |-> Len(st.code),
     jumps |-> Found(st, {"jump", "loop"}, JumpFound),
     constants |-> Found(st, {"constant", "no_constant"}, ConstantFound)]

\* Sizes: up to MaxFill statements, and the numbers of `nil;` statements
\* that put a jump distance just below, at and just above 2^16
MaxFill == 2
Half == (U16_MAX + 1) \div 2
Fills == (0..MaxFill) \cup {Half - d : d \in 0..3 * MaxFill}

\* { nil; ... nil; }  and  { nil; ... nil; !nil; }   2n and 2n + 3 bytes
Filler(n, odd) ==
    SBlock(<<SNils(n)>> \o (IF odd THEN <<SExpr(EUnary("!", ENil))>> ELSE <<>>), <<>>)

\* nil; ... nil;  then one of
\*   if (true) { filler }
\*   if (true) print nil; else { filler }
\*   while (true) { filler }
JumpSources ==
    { <<SNils(m), x>> :
        m \in {0, MaxFill},
        x \in UNION { { SIf(ETrue, Filler(n, odd), <<>>),
                        SIf(ETrue, SPrint(ENil), <<Filler(n, odd)>>),
                        SWhile(ETrue, Filler(n, odd)) } :
                      n \in Fills, odd \in BOOLEAN } }

\* up to three of:  print ;   print nil;   if (true) print 1;
ErrorSources ==
    UNION { [1..n -> {SBad, SPrint(ENil), SIf(ETrue, SPrint(ENum(1)), <<>>)}] : n \in 1..3 }

\* print 1; print 2; ... print n;  for n around 2^8, after  print ;  or not
ConstantSources ==
    { bad \o [i \in 1..n |-> SPrint(ENum(i))] :
        bad \in {<<>>, <<SBad>>},
        n \in (0..MaxFill) \cup ((U8_MAX + 1 - MaxFill)..(U8_MAX + 1 + MaxFill)) }

CompileSources == JumpSources \cup ErrorSources \cup ConstantSources

CompileInit ==
    /\ heap = <<>>
    /\ strings = TableNew
    /\ table = TableNew
    /\ shadow = <<>>
    /\ ret = [op |-> "source"]
    /\ vm = VMIdle
    /\ program \in CompileSources

\* compile(program)
DoCompile ==
    /\ ret.op = "source"
    /\ \E st \in {CompileBody(<<>>, ParserNew, program, 1)} : ret' = Compiled(st)
    /\ UNCHANGED <<heap, strings, table, shadow, vm, program>>

CompileNext == DoCompile

SpecCompile == CompileInit /\ [][CompileNext]_vars

\* the distance of a jump or loop found in the code: from the end of the
\* operand to the code length at patch time, or back to loop_start
Distance(j) == IF j.kind = "loop" THEN j.at + 2 - j.mark ELSE j.mark - j.at - 2

(* C17: Jump encoding round-trip.  For every jump patch_jump patched and   *)
(* every LOOP emit_loop emitted whose distance fits in 16 bits: the        *)
(* big-endian operand in the code satisfies operand offset + 2 + operand   *)
(* = code length at patch time (jump) or offset after the operand -        *)
(* operand = loop_start (loop), and the target the disassembler prints,    *)
(* offset + 3 +/- operand, is that address and is the ip the VM has after  *)
(* taking the jump.                                                        *)
C17_JumpRoundTrip ==
    ret.op = "compile" =>
        \A i \in 1..Len(ret.jumps) :
            Distance(ret.jumps[i]) <= U16_MAX =>
                /\ ret.jumps[i].kind = "jump" =>
                      ret.jumps[i].at + 2 + ret.jumps[i].operand = ret.jumps[i].mark
                /\ ret.jumps[i].kind = "loop" =>
                      ret.jumps[i].at + 2 - ret.jumps[i].operand = ret.jumps[i].mark
                /\ ret.jumps[i].target = ret.jumps[i].mark
                /\ ret.jumps[i].ip = ret.jumps[i].target

\* a compiled while whose loop goes back more than 2^15 bytes and whose
\* exit jump goes forward more than 2^15 bytes, both within 16 bits
C17_LongLoopEncoded ==
    /\ ret.op = "compile" /\ ret.result = "Some"
    /\ \E i, j \in 1..Len(ret.jumps) :
          /\ ret.jumps[i].kind = "loop" /\ ret.jumps[j].kind = "jump"
          /\ Distance(ret.jumps[i]) > Half /\ Distance(ret.jumps[i]) <= U16_MAX
          /\ Distance(ret.jumps[j]) > Half /\ Distance(ret.jumps[j]) <= U16_MAX
          /\ ret.jumps[i].operand > 255 /\ ret.jumps[i].operand % 256 # 0

(* C18: a jump or loop whose distance exceeds u16::MAX is a compile error: *)
(* compile returns None rather than code with a 16-bit operand that is     *)
(* not the distance.                                                       *)
C18_LongJumpIsError ==
    ret.op = "compile" =>
        \A i \in 1..Len(ret.jumps) :
            Distance(ret.jumps[i]) > U16_MAX => ret.result = "None"

\* compile returned a function whose code holds a jump over more than
\* u16::MAX bytes, with an operand that is not the distance
C18_TruncatedJumpCompiled ==
    /\ ret.op = "compile" /\ ret.result = "Some"
    /\ \E i \in 1..Len(ret.jumps) :
          /\ Distance(ret.jumps[i]) > U16_MAX
          /\ ret.jumps[i].operand # Distance(ret.jumps[i])

(* C19: compile returns None whenever an error was reported while parsing, *)
(* whatever was parsed after it (synchronize and later statements leave    *)
(* had_error set), and returns the function only when none was reported.   *)
C19_ErrorNeverCompiled ==
    ret.op = "compile" => (ret.result = "None" <=> ret.reported > 0)

\* compile returned None for a source whose first statement is in error,
\* after panic-mode recovery and two statements without error
C19_RecoveredAndRefused ==
    /\ ret.op = "compile" /\ ret.result = "None" /\ ret.reported = 1
    /\ Len(program) = 3 /\ program[1] = SBad
    /\ program[2] # SBad /\ program[3] # SBad

(* C20, as stated: a make_constant that makes the pool exceed 255 entries  *)
(* is a compile error, and every operand byte emitted without an error is  *)
(* the pool index the value was stored at.                                 *)
C20_ConstantPoolAsStated ==
    ret.op = "compile" =>
        \A i \in 1..Len(ret.constants) :
            /\ ret.constants[i].index + 1 > U8_MAX =>
                  ~ret.constants[i].stored /\ ret.result = "None"
            /\ ret.constants[i].stored => ret.constants[i].byte = ret.constants[i].index

(* C20, amended: a make_constant that makes the pool exceed 256 entries    *)
(* (an index above 255) is a compile error, and every operand byte emitted *)
(* without an error is the pool index the value was stored at.             *)
C20_ConstantPool ==
    ret.op = "compile" =>
        \A i \in 1..Len(ret.constants) :
            /\ ret.constants[i].index + 1 > U8_MAX + 1 =>
                  ~ret.constants[i].stored /\ ret.result = "None"
            /\ ret.constants[i].stored => ret.constants[i].byte = ret.constants[i].index

\* a source with 257 constants: the 256th was stored at index 255 and its
\* operand is 255, the 257th was an error
C20_PoolOverflowed ==
    /\ ret.op = "compile" /\ ret.result = "None" /\ ret.reported = 1
    /\ Len(ret.constants) = U8_MAX + 2
    /\ ret.constants[U8_MAX + 1].stored /\ ret.constants[U8_MAX + 1].byte = U8_MAX
    /\ ~ret.constants[U8_MAX + 2].stored

-----------------------------------------------------------------------------
(* The resolver: src/core/src/resolve.rs over the StackedMap of             *)
(* src/core/src/scope_map.rs.  A key is the pair (name, kind) with the name *)
(* written out (the SymbolId of a name is that name's identity) and the     *)
(* kind "Value" or "Type"; spans are left out.  The HashMap of the          *)
(* StackedMap is a function over all keys: a key without an entry and a key *)
(* with an empty Vec are the same to every reader (get, get_mut).           *)

DEFAULT_TYPES == {"number", "string", "boolean", "float"}
ValueNames == {"a", "b", "p", "f", "main"}
TypeNames == {"t", "a"} \cup DEFAULT_TYPES
ResolverKeys == (ValueNames \X {"Value"}) \cup (TypeNames \X {"Type"})

\* the marker begin_scope pushes (None)
ScopeMark == <<>>

\* StackedMap::new
StackedMapNew == [table |-> [k \in ResolverKeys |-> <<>>], scopes |-> <<>>]

\* StackedMap::insert
insert(m, key, value) ==
    [m EXCEPT !.table[key] = Append(@, value), !.scopes = Append(@, key)]

\* StackedMap::update
update(m, key, value) ==
    [m EXCEPT !.table[key] = IF @ = <<>> THEN <<value>>
                             ELSE Append(SubSeq(@, 1, Len(@) - 1), value)]

\* ExitScopeIter::next until it returns None: the map left and the items
\* yielded, in order
RECURSIVE end_scope_iter(_, _)
end_scope_iter(m, items) ==
    IF m.scopes = <<>> THEN [map |-> m, items |-> items]
    ELSE IF m.scopes[Len(m.scopes)] = ScopeMark
    THEN [map |-> [m EXCEPT !.scopes = SubSeq(@, 1, Len(@) - 1)], items |-> items]
    ELSE IF m.table[m.scopes[Len(m.scopes)]] = <<>>
    THEN [map |-> [m EXCEPT !.scopes = SubSeq(@, 1, Len(@) - 1)], items |-> items]
    ELSE end_scope_iter(
            [m EXCEPT !.scopes = SubSeq(@, 1, Len(@) - 1),
                      !.table[m.scopes[Len(m.scopes)]] = SubSeq(@, 1, Len(@) - 1)],
            Append(items, [key |-> m.scopes[Len(m.scopes)],
                           value |-> m.table[m.scopes[Len(m.scopes)]]
                                            [Len(m.table[m.scopes[Len(m.scopes)]])]]))

LocalData(state) == [state |-> state, reads |-> 0]

\* Reporter::error, Reporter::warn
report(r, level, msg, name) ==
    [r EXCEPT !.reporter = Append(@, [level |-> level, msg |-> msg, name |-> name])]

\* Resolver::new
ResolverNew ==
    [items |-> DEFAULT_TYPES \X {"Type"}, reporter |-> <<>>, data |-> StackedMapNew]

\* Resolver::declare_item (never exported)
declare_item(r, key) ==
    [(IF r.data.table[key] # <<>> THEN report(r, "Error", "Duplicate item", key[1]) ELSE r)
        EXCEPT !.items = @ \cup {key},
               !.data = insert(@, key, LocalData("Declared"))]

\* Resolver::declare
declare(r, key) ==
    [(IF r.data.table[key] # <<>>
      THEN report(r, "Warn", "The identifier has already been declared.", key[1]) ELSE r)
        EXCEPT !.data = insert(@, key, LocalData("Declared"))]

\* Resolver::begin_scope, StackedMap::begin_scope
begin_scope(r) == [r EXCEPT !.data.scopes = Append(@, ScopeMark)]

\* the body of the for of Resolver::end_scope, over items[i..]
RECURSIVE WarnUnused(_, _, _)
WarnUnused(r, items, i) ==
    IF i > Len(items) THEN r
    ELSE WarnUnused(IF (items[i].value.reads = 0 \/ items[i].value.state = "Declared")
                       /\ items[i].key[1] # "main"
                    THEN report(r, "Warn", "Unused variable", items[i].key[1])
                    ELSE r,
                    items, i + 1)

\* Resolver::end_scope
end_scope(r) ==
    WarnUnused([r EXCEPT !.data = end_scope_iter(r.data, <<>>).map],
               end_scope_iter(r.data, <<>>).items, 1)

\* Resolver::define
define(r, key) == [r EXCEPT !.data = update(@, key, LocalData("Defined"))]

\* Resolver::visit_name (the name it returns is not kept)
visit_name(r, key) ==
    IF r.data.table[key] # <<>>
    THEN [r EXCEPT !.data.table[key][Len(r.data.table[key])] =
                       [state |-> "Read", reads |-> @.reads + 1]]
    ELSE IF key \notin r.items THEN report(r, "Error", "Unknown identifier", key[1])
    ELSE r

(* The resolver specification.  resolve_program runs over a program of an  *)
(* optional type alias t and the functions main and f in either order,     *)
(* each with the parameters of the program; the statements of the function *)
(* bodies are chosen as the resolver reaches them: let x [: ty] [:= u];,   *)
(* an expression statement u; and nested blocks.  `shadow` keeps the       *)
(* lexical scopes of the program itself: the bindings each open scope      *)
(* holds (items, parameters, lets) and whether a use has referred to them. *)
MaxStatements == 3
MaxBlockDepth == 2

ResolverPrograms ==
    [type_alias : {<<>>, <<"t">>},
     functions : {<<"main">>, <<"main", "f">>, <<"f", "main">>},
     params : {<<>>, <<"p">>}]

ItemCount(p) == Len(p.type_alias) + Len(p.functions)
FunctionAt(p, i) == p.functions[i - Len(p.type_alias)]
DeclaredItems(p) ==
    {<<p.type_alias[i], "Type">> : i \in 1..Len(p.type_alias)}
    \cup {<<p.functions[i], "Value">> : i \in 1..Len(p.functions)}

Binding(key, param) == [key |-> key, used |-> FALSE, param |-> param]

RefBegin(sh) == Append(sh, <<>>)
RefBind(sh, key, param) == [sh EXCEPT ![Len(sh)] = Append(@, Binding(key, param))]
\* the innermost scope that binds key, 0 when none does
RefScope(sh, key) ==
    IF \E i \in 1..Len(sh) : \E j \in 1..Len(sh[i]) : sh[i][j].key = key
    THEN CHOOSE i \in 1..Len(sh) :
            /\ \E j \in 1..Len(sh[i]) : sh[i][j].key = key
            /\ \A k \in (i + 1)..Len(sh) : \A j \in 1..Len(sh[k]) : sh[k][j].key # key
    ELSE 0
\* a use of key refers to the last binding of key in the innermost scope
\* that binds it
RefUse(sh, key) ==
    IF RefScope(sh, key) = 0 THEN sh
    ELSE [sh EXCEPT ![RefScope(sh, key)]
                     [CHOOSE j \in 1..Len(sh[RefScope(sh, key)]) :
                         /\ sh[RefScope(sh, key)][j].key = key
                         /\ \A k \in (j + 1)..Len(sh[RefScope(sh, key)]) :
                               sh[RefScope(sh, key)][k].key # key].used = TRUE]

RECURSIVE RefBindAll(_, _, _, _)
RefBindAll(sh, names, kind, param) ==
    IF names = <<>> THEN sh
    ELSE RefBindAll(RefBind(sh, <<Head(names), kind>>, param), Tail(names), kind, param)

RECURSIVE DeclareItems(_, _, _)
DeclareItems(r, names, kind) ==
    IF names = <<>> THEN r
    ELSE DeclareItems(declare_item(r, <<Head(names), kind>>), Tail(names), kind)

\* visit_function_param for each parameter: its type (number) only
RECURSIVE VisitParams(_, _)
VisitParams(r, params) ==
    IF params = <<>> THEN r
    ELSE VisitParams(visit_name(r, <<"number", "Type">>), Tail(params))

\* what the last step of the resolver did: the names it looked up and
\* whether each was reported unknown, the names it warned as unused, and
\* the lexical scope that ended
Resolved(op, visits, warned, scope) ==
    [op |-> op, visits |-> visits, warned |-> warned, scope |-> scope]
Visit(r, key) ==
    [key |-> key, unknown |-> Len(visit_name(r, key).reporter) > Len(r.reporter)]
Warned(r, r2) ==
    [i \in 1..(Len(r2.reporter) - Len(r.reporter)) |-> r2.reporter[Len(r.reporter) + i].name]

At(item, inside, depth, statements) ==
    [status |-> "resolve", item |-> item, inside |-> inside, depth |-> depth,
     statements |-> statements]

ResolverInit ==
    /\ heap = <<>>
    /\ strings = TableNew
    /\ table = ResolverNew
    /\ shadow = <<>>
    /\ ret = Resolved("new", <<>>, <<>>, <<>>)
    /\ vm = At(0, FALSE, 0, 0)
    /\ program \in ResolverPrograms

\* resolve_program up to its first visit: begin_scope and the forward
\* declarations
ForwardDeclare ==
    /\ vm.item = 0
    /\ table' = DeclareItems(DeclareItems(begin_scope(table), program.type_alias, "Type"),
                             program.functions, "Value")
    /\ shadow' = RefBindAll(RefBindAll(RefBegin(shadow), program.type_alias, "Type", FALSE),
                            program.functions, "Value", FALSE)
    /\ ret' = Resolved("resolve_program", <<>>, <<>>, <<>>)
    /\ vm' = At(1, FALSE, 0, 0)
    /\ UNCHANGED <<heap, strings, program>>

\* visit_type_alias of `type t = ty;` and define
VisitTypeAlias(ty) ==
    /\ vm.item \in 1..Len(program.type_alias)
    /\ table' = define(visit_name(table, <<ty, "Type">>), <<program.type_alias[vm.item], "Type">>)
    /\ shadow' = RefUse(shadow, <<ty, "Type">>)
    /\ ret' = Resolved("visit_type_alias", <<Visit(table, <<ty, "Type">>)>>, <<>>, <<>>)
    /\ vm' = At(vm.item + 1, FALSE, 0, 0)
    /\ UNCHANGED <<heap, strings, program>>

\* visit_function up to the first statement of the body: begin_scope, the
\* parameters, and the begin_scope of the body block
BeginFunction ==
    /\ vm.item \in (Len(program.type_alias) + 1)..ItemCount(program)
    /\ ~vm.inside
    /\ table' = begin_scope(VisitParams(begin_scope(table), program.params))
    /\ shadow' = RefBegin(RefBindAll(RefBegin(shadow), program.params, "Value", TRUE))
    /\ ret' = Resolved("visit_function",
                       [i \in 1..Len(program.params) |-> Visit(table, <<"number", "Type">>)],
                       <<>>, <<>>)
    /\ vm' = At(vm.item, TRUE, 1, vm.statements)
    /\ UNCHANGED <<heap, strings, program>>

VisitOptional(r, name, kind) == IF name = "none" THEN r ELSE visit_name(r, <<name, kind>>)
RefUseOptional(sh, name, kind) == IF name = "none" THEN sh ELSE RefUse(sh, <<name, kind>>)
VisitsOptional(r, name, kind) == IF name = "none" THEN <<>> ELSE <<Visit(r, <<name, kind>>)>>

\* visit_stmt of `let x: ty := u;` (ty and u may be absent; u is not x)
LetStmt(x, ty, u) ==
    /\ vm.inside /\ vm.depth >= 1 /\ vm.statements < MaxStatements
    /\ u # x
    /\ table' = define(VisitOptional(VisitOptional(declare(table, <<x, "Value">>), ty, "Type"),
                                     u, "Value"),
                       <<x, "Value">>)
    /\ shadow' = RefBind(RefUseOptional(RefUseOptional(shadow, ty, "Type"), u, "Value"),
                         <<x, "Value">>, FALSE)
    /\ ret' = Resolved("let",
                       VisitsOptional(declare(table, <<x, "Value">>), ty, "Type")
                       \o VisitsOptional(VisitOptional(declare(table, <<x, "Value">>), ty, "Type"),
                                         u, "Value"),
                       <<>>, <<>>)
    /\ vm' = [vm EXCEPT !.statements = @ + 1]
    /\ UNCHANGED <<heap, strings, program>>

\* visit_stmt of the expression statement `u;`
ExprStmt(u) ==
    /\ vm.inside /\ vm.depth >= 1 /\ vm.statements < MaxStatements
    /\ table' = visit_name(table, <<u, "Value">>)
    /\ shadow' = RefUse(shadow, <<u, "Value">>)
    /\ ret' = Resolved("expression", <<Visit(table, <<u, "Value">>)>>, <<>>, <<>>)
    /\ vm' = [vm EXCEPT !.statements = @ + 1]
    /\ UNCHANGED <<heap, strings, program>>

\* visit_stmt of a block, up to its first statement
BeginBlock ==
    /\ vm.inside /\ vm.depth \in 1..(MaxBlockDepth - 1) /\ vm.statements < MaxStatements
    /\ table' = begin_scope(table)
    /\ shadow' = RefBegin(shadow)
    /\ ret' = Resolved("begin_scope", <<>>, <<>>, <<>>)
    /\ vm' = [vm EXCEPT !.depth = @ + 1, !.statements = @ + 1]
    /\ UNCHANGED <<heap, strings, program>>

\* visit_stmt of a block, after its last statement (the body of a function
\* is a block)
EndBlock ==
    /\ vm.inside /\ vm.depth >= 1
    /\ table' = end_scope(table)
    /\ shadow' = SubSeq(shadow, 1, Len(shadow) - 1)
    /\ ret' = Resolved("end_scope", <<>>, Warned(table, end_scope(table)),
                       shadow[Len(shadow)])
    /\ vm' = [vm EXCEPT !.depth = @ - 1]
    /\ UNCHANGED <<heap, strings, program>>

\* visit_function after the body, and the define of resolve_program
EndFunction ==
    /\ vm.inside /\ vm.depth = 0
    /\ table' = define(end_scope(table), <<FunctionAt(program, vm.item), "Value">>)
    /\ shadow' = SubSeq(shadow, 1, Len(shadow) - 1)
    /\ ret' = Resolved("end_scope", <<>>, Warned(table, end_scope(table)),
                       shadow[Len(shadow)])
    /\ vm' = At(vm.item + 1, FALSE, 0, vm.statements)
    /\ UNCHANGED <<heap, strings, program>>

\* the end_scope of resolve_program
EndProgram ==
    /\ vm.item = ItemCount(program) + 1
    /\ table' = end_scope(table)
    /\ shadow' = SubSeq(shadow, 1, Len(shadow) - 1)
    /\ ret' = Resolved("end_scope", <<>>, Warned(table, end_scope(table)),
                       shadow[Len(shadow)])
    /\ vm' = At(vm.item + 1, FALSE, 0, vm.statements)
    /\ UNCHANGED <<heap, strings, program>>

ResolverNext ==
    \/ ForwardDeclare
    \/ \E ty \in {"number", "a"} : VisitTypeAlias(ty)
    \/ BeginFunction
    \/ \E x \in {"a", "b"}, ty \in {"none", "number", "t"}, u \in {"none", "a", "b"} :
          LetStmt(x, ty, u)
    \/ \E u \in ValueNames : ExprStmt(u)
    \/ BeginBlock
    \/ EndBlock
    \/ EndFunction
    \/ EndProgram

SpecResolver == ResolverInit /\ [][ResolverNext]_vars

\* the names of the bindings of an ended scope that no use referred to, the
\* last declared first (parameters, which the resolver does not declare, and
\* main aside)
RECURSIVE Unused(_, _)
Unused(scope, i) ==
    IF i = 0 THEN <<>>
    ELSE (IF ~scope[i].used /\ ~scope[i].param /\ scope[i].key[1] # "main"
          THEN <<scope[i].key[1]>> ELSE <<>>)
         \o Unused(scope, i - 1)

(* C24: Resolver unused-variable warning.  When a scope ends, "Unused       *)
(* variable" is reported for exactly the names declared in that scope that  *)
(* no use in the program referred to (main aside), whatever the order of    *)
(* the top-level items.                                                     *)
C24_UnusedExactly ==
    ret.op = "end_scope" => ret.warned = Unused(ret.scope, Len(ret.scope))

\* resolve_program ended with "Unused variable `f`" for a function f that a
\* use referred to
C24_ReadItemReported ==
    /\ ret.op = "end_scope" /\ shadow = <<>>
    /\ \E i \in 1..Len(ret.scope) : ret.scope[i].key = <<"f", "Value">> /\ ret.scope[i].used
    /\ \E i \in 1..Len(ret.warned) : ret.warned[i] = "f"

\* a key is known where the resolver stands: bound in an open scope of the
\* program, a declared item or a default type
Known(key) ==
    \/ \E i \in 1..Len(shadow) : \E j \in 1..Len(shadow[i]) : shadow[i][j].key = key
    \/ key \in DeclaredItems(program)
    \/ key \in DEFAULT_TYPES \X {"Type"}

(* C25: Resolver unknown identifier.  A use of a name is reported as       *)
(* "Unknown identifier" exactly when the name, of that kind, is bound in no *)
(* open scope and is neither a declared item nor a default type.            *)
C25_UnknownExactly ==
    \A i \in 1..Len(ret.visits) : ret.visits[i].unknown <=> ~Known(ret.visits[i].key)

\* a use of the parameter p in the body of its function was reported unknown
C25_ParameterUnknown ==
    /\ ret.op = "expression"
    /\ ret.visits[1].key = <<"p", "Value">> /\ ret.visits[1].unknown
    /\ \E i \in 1..Len(shadow) : \E j \in 1..Len(shadow[i]) :
          shadow[i][j].key = <<"p", "Value">> /\ shadow[i][j].param

\* the same with the parameters set aside: a use of a name other than a
\* parameter is reported unknown exactly when it is not known; a local is
\* unknown after its block, and known again as the outer binding after a
\* block that shadowed it
C25_UnknownButParameters ==
    \A i \in 1..Len(ret.visits) :
        ret.visits[i].key # <<"p", "Value">> =>
            (ret.visits[i].unknown <=> ~Known(ret.visits[i].key))

-----------------------------------------------------------------------------
(* The compiler's locals and upvalues: Compiler of src/compiler/src/        *)
(* compiler.rs and the scope handling of src/compiler/src/parser.rs.  The   *)
(* parser is followed handler by handler over what the source text brings:  *)
(* `{`, `}`, `var name;`, `fun name(params) {`, the `}` of a function, and  *)
(* a use of a name.  vm holds the parser: compilers, current_compiler,      *)
(* had_error, and in code the bytes the handler at hand emitted (the chunks *)
(* and their constants are not kept; a constant operand is written 0),      *)
(* program the number of handlers the text has run through.                 *)
(* Indices of compilers are the source's plus one; slots and upvalue        *)
(* indices are the source's.  is_captured is a field of Local as parser.rs  *)
(* uses it; Local::default leaves it false.                                 *)

MaxText == 9            \* handlers one source text runs through
MaxFunctions == 2       \* functions of one source text
MaxScopeDepth == 2      \* deepest scope_depth
LocalSlots == 3         \* locals of a Compiler kept (257 in the source)
UpvalueSlots == 3       \* upvalues of a Compiler kept (257 in the source)
VarNames == {"x", "y"}
FunNames == {"f"}

\* Local::default: the name is the lexeme "\0", which no identifier has
LocalDefault == [name |-> "", depth |-> 0, is_captured |-> FALSE]

\* Compiler::new
CompilerNew(compiler_type) ==
    [function |-> [arity |-> 0, upvalue_count |-> 0], compiler_type |-> compiler_type,
     locals |-> [i \in 1..LocalSlots |-> LocalDefault],
     upvalues |-> [i \in 1..UpvalueSlots |-> None],
     local_count |-> 1, scope_depth |-> 0, enclosing |-> None]

\* Parser::new: the compiler of the script alone
ScopesNew ==
    [compilers |-> <<CompilerNew("Script")>>, current_compiler |-> 1,
     had_error |-> FALSE, code |-> <<>>]

current_compiler(ps) == ps.compilers[ps.current_compiler]

\* Parser::error, as far as had_error
ScopeError(ps) == [ps EXCEPT !.had_error = TRUE]

\* a handler starts with nothing emitted
Fresh(ps) == [ps EXCEPT !.code = <<>>]

\* Parser::begin_scope
ParserBeginScope(ps) == [ps EXCEPT !.compilers[ps.current_compiler].scope_depth = @ + 1]

\* the while loop of Parser::end_scope
RECURSIVE EndScopeLoop(_)
EndScopeLoop(ps) ==
    IF /\ current_compiler(ps).local_count > 0
       /\ current_compiler(ps).locals[current_compiler(ps).local_count].depth
             > current_compiler(ps).scope_depth
    THEN EndScopeLoop(
            [Emit(ps, <<IF current_compiler(ps).locals[current_compiler(ps).local_count].is_captured
                        THEN Op.OP_CLOSE_UPVALUE ELSE Op.OP_POP>>)
                EXCEPT !.compilers[ps.current_compiler].local_count = @ - 1])
    ELSE ps

\* Parser::end_scope
ParserEndScope(ps) ==
    EndScopeLoop([ps EXCEPT !.compilers[ps.current_compiler].scope_depth = @ - 1])

\* the loop of declare_variable from slot i down: the name is that of a
\* local of the current scope
RECURSIVE Redeclared(_, _, _)
Redeclared(c, i, name) ==
    IF i < 0 THEN FALSE
    ELSE IF c.locals[i + 1].depth # -1 /\ c.locals[i + 1].depth < c.scope_depth THEN FALSE
    ELSE c.locals[i + 1].name = name \/ Redeclared(c, i - 1, name)

\* Parser::add_local: the name and the depth of the slot are written
add_local(ps, name) ==
    IF current_compiler(ps).local_count = 256 THEN ScopeError(ps)
    ELSE [ps EXCEPT !.compilers[ps.current_compiler] =
            [@ EXCEPT !.local_count = current_compiler(ps).local_count + 1,
                      !.locals[current_compiler(ps).local_count + 1] =
                          [@ EXCEPT !.name = name, !.depth = -1]]]

\* Parser::declare_variable
declare_variable(ps, name) ==
    IF current_compiler(ps).scope_depth = 0 THEN ps
    ELSE add_local(IF Redeclared(current_compiler(ps),
                                 current_compiler(ps).local_count - 1, name)
                   THEN ScopeError(ps) ELSE ps, name)

\* Parser::mark_initialized
mark_initialized(ps) ==
    IF current_compiler(ps).scope_depth = 0 THEN ps
    ELSE [ps EXCEPT !.compilers[ps.current_compiler].locals[current_compiler(ps).local_count]
                        .depth = current_compiler(ps).scope_depth]

\* Parser::define_variable
define_variable(ps) ==
    IF current_compiler(ps).scope_depth > 0 THEN mark_initialized(ps)
    ELSE Emit(ps, <<Op.OP_DEFINE_GLOBAL, 0>>)

\* Parser::resolve_local: the loop from slot i down (every local is
\* initialised when a name is used here, no use stands in an initializer)
RECURSIVE ResolveLocalFrom(_, _, _)
ResolveLocalFrom(c, i, name) ==
    IF i < 0 THEN None
    ELSE IF c.locals[i + 1].name = name THEN Some(i)
    ELSE ResolveLocalFrom(c, i - 1, name)

resolve_local(ps, compiler_index, name) ==
    ResolveLocalFrom(ps.compilers[compiler_index],
                     ps.compilers[compiler_index].local_count - 1, name)

\* the loop of add_upvalue from index i: the first index of the entry, or
\* upvalue_count
RECURSIVE UpvalueFrom(_, _, _)
UpvalueFrom(c, i, entry) ==
    IF i >= c.function.upvalue_count THEN i
    ELSE IF c.upvalues[i + 1] = Some(entry) THEN i
    ELSE UpvalueFrom(c, i + 1, entry)

Added(ps, arg) == [ps |-> ps, arg |-> arg]

\* (a variant: add_upvalue without the search for the entry)
add_upvalue_again(ps, compiler_index, local_index, is_local) ==
    Added([ps EXCEPT !.compilers[compiler_index] =
             [@ EXCEPT !.upvalues[@.function.upvalue_count + 1] =
                           Some(UpValue(is_local, local_index)),
                       !.function.upvalue_count = @ + 1]],
          ps.compilers[compiler_index].function.upvalue_count)

\* Parser::add_upvalue: the parser after it and the index it returns
add_upvalue(ps, compiler_index, local_index, is_local) ==
    IF UpvalueFrom(ps.compilers[compiler_index], 0, UpValue(is_local, local_index))
          < ps.compilers[compiler_index].function.upvalue_count
    THEN Added(ps, UpvalueFrom(ps.compilers[compiler_index], 0,
                               UpValue(is_local, local_index)))
    ELSE IF ps.compilers[compiler_index].function.upvalue_count = U8_MAX
    THEN Added(ScopeError(ps), 0)
    ELSE Added([ps EXCEPT !.compilers[compiler_index] =
                  [@ EXCEPT !.upvalues[@.function.upvalue_count + 1] =
                                Some(UpValue(is_local, local_index)),
                            !.function.upvalue_count = @ + 1]],
               ps.compilers[compiler_index].function.upvalue_count)

\* Parser::resolve_upvalue: the parser after it and the Option it returns
RECURSIVE resolve_upvalue(_, _, _)
resolve_upvalue(ps, compiler_index, name) ==
    IF ~ps.compilers[compiler_index].enclosing.some THEN Added(ps, None)
    ELSE \* enclosing, then local
         LET enclosing == ps.compilers[compiler_index].enclosing.val
             local == resolve_local(ps, enclosing, name)
         IN IF local.some
            THEN LET r == add_upvalue(
                            [ps EXCEPT !.compilers[enclosing].locals[local.val + 1]
                                           .is_captured = TRUE],
                            compiler_index, local.val, TRUE)
                 IN Added(r.ps, Some(r.arg))
            ELSE LET upvalue == resolve_upvalue(ps, enclosing, name)
                 IN IF upvalue.arg.some
                    THEN LET r == add_upvalue(upvalue.ps, compiler_index,
                                              upvalue.arg.val, FALSE)
                         IN Added(r.ps, Some(r.arg))
                    ELSE Added(upvalue.ps, None)

\* Parser::named_variable of a name that is read
named_variable(ps, name) ==
    IF resolve_local(ps, ps.current_compiler, name).some
    THEN Emit(ps, <<Op.OP_GET_LOCAL, resolve_local(ps, ps.current_compiler, name).val>>)
    ELSE LET r == resolve_upvalue(ps, ps.current_compiler, name)
         IN IF r.arg.some THEN Emit(r.ps, <<Op.OP_GET_UPVALUE, r.arg.val>>)
            ELSE Emit(r.ps, <<Op.OP_GET_GLOBAL, 0>>)

\* Parser::start_compiler
start_compiler(ps, function) ==
    [ps EXCEPT !.compilers = Append(@, [CompilerNew(function) EXCEPT
                                           !.enclosing = Some(ps.current_compiler)]),
               !.current_compiler = Len(ps.compilers) + 1]

\* Parser::end_compiler: emit_return, then back to the enclosing compiler
end_compiler(ps) ==
    [Emit(ps, <<Op.OP_NIL, Op.OP_RETURN>>) EXCEPT
        !.current_compiler = current_compiler(ps).enclosing.val]

\* the parameters of Parser::function from the i-th
RECURSIVE FunctionParams(_, _, _)
FunctionParams(ps, params, i) ==
    IF i > Len(params) THEN ps
    ELSE FunctionParams(
            define_variable(declare_variable(
                [ps EXCEPT !.compilers[ps.current_compiler].function.arity = @ + 1],
                params[i])),
            params, i + 1)

\* the (is_local, index) bytes Parser::function emits from upvalue i
RECURSIVE UpvaluePairs(_, _)
UpvaluePairs(c, i) ==
    IF i >= c.function.upvalue_count THEN <<>>
    ELSE <<IF c.upvalues[i + 1].val.is_local THEN 1 ELSE 0, c.upvalues[i + 1].val.index>>
         \o UpvaluePairs(c, i + 1)

\* Beside the parser, shadow keeps what the source text declared: per
\* compiler the variables in scope, [name, depth, captured] in the order of
\* their declaration (the i-th has slot i), where captured says that a
\* function inside used the variable; and open, the compilers of the
\* functions the text stands in, the outermost first.
Variable(name, depth) == [name |-> name, depth |-> depth, captured |-> FALSE]

DeclareIn(sh, ci, depth, names) ==
    IF depth = 0 THEN sh
    ELSE [sh EXCEPT !.scopes[ci] = @ \o [i \in 1..Len(names) |-> Variable(names[i], depth)]]

\* the slots of the variables called name among those in scope
Declared(live, name) == {i \in 1..Len(live) : live[i].name = name}

Greatest(S) == CHOOSE i \in S : \A j \in S : j <= i

\* the position in open of the innermost function around the current one
\* that has a variable called name in scope, or 0
Owner(sh, name) ==
    Greatest({0} \cup {k \in 1..Len(sh.open) - 1 : Declared(sh.scopes[sh.open[k]], name) # {}})

UseIn(sh, name) ==
    IF Declared(sh.scopes[sh.open[Len(sh.open)]], name) # {} \/ Owner(sh, name) = 0 THEN sh
    ELSE [sh EXCEPT !.scopes[sh.open[Owner(sh, name)]]
                        [Greatest(Declared(sh.scopes[sh.open[Owner(sh, name)]], name))]
                        .captured = TRUE]

RECURSIVE Backwards(_)
Backwards(seq) ==
    IF seq = <<>> THEN <<>> ELSE <<seq[Len(seq)]>> \o Backwards(SubSeq(seq, 1, Len(seq) - 1))

\* what a handler did: exited are the variables whose scope it ended, the
\* last declared first; compiler is the compiler it stood in
Handled(op, name, exited) ==
    [op |-> op, name |-> name, exited |-> exited, compiler |-> vm.current_compiler,
     upvalue_count |-> current_compiler(vm).function.upvalue_count]

CaptureInit ==
    /\ heap = <<>>
    /\ strings = TableNew
    /\ table = TableNew
    /\ program = 0
    /\ vm = ScopesNew
    /\ shadow = [scopes |-> << <<>> >>, open |-> <<1>>]
    /\ ret = [op |-> "new", name |-> "", exited |-> <<>>, compiler |-> 1, upvalue_count |-> 0]

\* `{`: statement calls begin_scope
BlockBegin ==
    /\ program < MaxText
    /\ program' = program + 1
    /\ current_compiler(vm).scope_depth < MaxScopeDepth
    /\ vm' = ParserBeginScope(Fresh(vm))
    /\ ret' = Handled("begin_scope", "", <<>>)
    /\ UNCHANGED <<heap, strings, table, shadow>>

\* the `}` of a block: statement calls end_scope
BlockEnd ==
    /\ program < MaxText
    /\ program' = program + 1
    /\ current_compiler(vm).scope_depth
          > (IF current_compiler(vm).compiler_type = "Function" THEN 1 ELSE 0)
    /\ vm' = ParserEndScope(Fresh(vm))
    /\ shadow' = [shadow EXCEPT !.scopes[vm.current_compiler] =
                     SelectSeq(@, LAMBDA var : var.depth < current_compiler(vm).scope_depth)]
    /\ ret' = Handled("end_scope", "",
                      Backwards(SelectSeq(shadow.scopes[vm.current_compiler],
                          LAMBDA var : var.depth >= current_compiler(vm).scope_depth)))
    /\ UNCHANGED <<heap, strings, table>>

\* var name; : var_declaration
VarDeclaration(name) ==
    /\ program < MaxText
    /\ program' = program + 1
    /\ current_compiler(vm).scope_depth > 0 => current_compiler(vm).local_count < LocalSlots
    /\ vm' = define_variable(Emit(declare_variable(Fresh(vm), name), <<Op.OP_NIL>>))
    /\ shadow' = DeclareIn(shadow, vm.current_compiler, current_compiler(vm).scope_depth,
                           <<name>>)
    /\ ret' = Handled("var_declaration", name, <<>>)
    /\ UNCHANGED <<heap, strings, table>>

\* fun name(params) { : fun_declaration, and function up to the body
FunBegin(name, params) ==
    /\ program < MaxText
    /\ program' = program + 1
    /\ Len(vm.compilers) <= MaxFunctions
    /\ current_compiler(vm).scope_depth > 0 => current_compiler(vm).local_count < LocalSlots
    /\ vm' = FunctionParams(
                ParserBeginScope(start_compiler(
                    mark_initialized(declare_variable(Fresh(vm), name)), "Function")),
                params, 1)
    /\ shadow' = [DeclareIn(shadow, vm.current_compiler, current_compiler(vm).scope_depth,
                            <<name>>)
                    EXCEPT !.scopes = Append(@, [i \in 1..Len(params) |->
                                                    Variable(params[i], 1)]),
                           !.open = Append(@, Len(vm.compilers) + 1)]
    /\ ret' = Handled("fun_declaration", name, <<>>)
    /\ UNCHANGED <<heap, strings, table>>

\* the `}` of a function: function from end_compiler, then define_variable
\* of fun_declaration
FunEnd ==
    /\ program < MaxText
    /\ program' = program + 1
    /\ current_compiler(vm).compiler_type = "Function"
    /\ current_compiler(vm).scope_depth = 1
    /\ vm' = define_variable(Emit(end_compiler(Fresh(vm)),
                                  <<Op.OP_CLOSURE, 0>> \o UpvaluePairs(current_compiler(vm), 0)))
    /\ shadow' = [shadow EXCEPT !.open = SubSeq(@, 1, Len(@) - 1)]
    /\ ret' = Handled("function", "", <<>>)
    /\ UNCHANGED <<heap, strings, table>>

\* name; : variable and named_variable
NameUse(name) ==
    /\ program < MaxText
    /\ program' = program + 1
    /\ vm' = named_variable(Fresh(vm), name)
    /\ shadow' = UseIn(shadow, name)
    /\ ret' = Handled("named_variable", name, <<>>)
    /\ UNCHANGED <<heap, strings, table>>

CaptureNext ==
    \/ BlockBegin
    \/ BlockEnd
    \/ \E name \in VarNames : VarDeclaration(name)
    \/ \E name \in FunNames, params \in {<<>>} \cup {<<p>> : p \in VarNames} :
          FunBegin(name, params)
    \/ FunEnd
    \/ \E name \in VarNames \cup FunNames : NameUse(name)

SpecCapture == CaptureInit /\ [][CaptureNext]_vars

(* C38: Scope exit.  end_scope removes exactly the locals declared at the  *)
(* exiting depth and emits for each of them exactly one instruction, the    *)
(* last declared first: CLOSE_UPVALUE if a function inside used the         *)
(* variable, POP otherwise; the locals of the enclosing scopes are left as  *)
(* they were.                                                               *)
C38_ScopeExit ==
    [][ret'.op = "end_scope" =>
         /\ current_compiler(vm').local_count
               = current_compiler(vm).local_count - Len(ret'.exited)
         /\ \A i \in 1..Len(ret'.exited) :
               ret'.exited[i].depth = current_compiler(vm).scope_depth
         /\ \A i \in 1..Len(shadow'.scopes[vm.current_compiler]) :
               /\ shadow'.scopes[vm.current_compiler][i].depth
                     < current_compiler(vm).scope_depth
               /\ current_compiler(vm').locals[i + 1] = current_compiler(vm).locals[i + 1]
         /\ vm'.code = [i \in 1..Len(ret'.exited) |->
                           IF ret'.exited[i].captured THEN Op.OP_CLOSE_UPVALUE
                           ELSE Op.OP_POP]]_vars

\* end_scope emitted CLOSE_UPVALUE for a variable that no function used
C38_ClosedUncaptured ==
    /\ ret.op = "end_scope" /\ ~vm.had_error
    /\ Len(vm.code) = Len(ret.exited)
    /\ \E i \in 1..Len(ret.exited) :
          vm.code[i] = Op.OP_CLOSE_UPVALUE /\ ~ret.exited[i].captured

\* the <<compiler, slot>> at the end of the chain of upvalue i of compiler ci
RECURSIVE Refers(_, _, _)
Refers(compilers, ci, i) ==
    IF compilers[ci].upvalues[i + 1].val.is_local
    THEN <<compilers[ci].enclosing.val, compilers[ci].upvalues[i + 1].val.index>>
    ELSE Refers(compilers, compilers[ci].enclosing.val, compilers[ci].upvalues[i + 1].val.index)

\* upvalue i of compiler ci and every entry its chain goes through exist
RECURSIVE Chained(_, _, _)
Chained(compilers, ci, i) ==
    /\ i < compilers[ci].function.upvalue_count
    /\ compilers[ci].upvalues[i + 1].some
    /\ compilers[ci].enclosing.some
    /\ \/ compilers[ci].upvalues[i + 1].val.is_local
       \/ /\ ~compilers[ci].upvalues[i + 1].val.is_local
          /\ Chained(compilers, compilers[ci].enclosing.val,
                     compilers[ci].upvalues[i + 1].val.index)

\* the upvalue entries of a compiler
UpvalueEntries(c) == {c.upvalues[i] : i \in {j \in 1..UpvalueSlots : c.upvalues[j].some}}

(* C39: Compile-time upvalue resolution.  A name that is no local of the   *)
(* function at hand and is a variable of the function right around it gets  *)
(* the upvalue {index: the variable's slot, is_local: true}; one that is a  *)
(* variable of a function further out gets an upvalue with is_local false   *)
(* whose chain goes through an entry of every function in between and ends  *)
(* at the variable's slot; a name no function around declares is a global.  *)
(* Two indices of one function never stand for the same entry or the same   *)
(* variable, so a second use of a variable returns the index of the first,  *)
(* and upvalue_count is the number of distinct entries, which is the number *)
(* of (is_local, index) pairs emitted after CLOSURE.                        *)
C39_UpvalueResolution ==
    /\ \A ci \in 1..Len(vm.compilers) :
          /\ Cardinality(UpvalueEntries(vm.compilers[ci]))
                = vm.compilers[ci].function.upvalue_count
          /\ \A i \in 1..UpvalueSlots :
                vm.compilers[ci].upvalues[i].some
                   <=> i <= vm.compilers[ci].function.upvalue_count
          /\ \A i, j \in 0..vm.compilers[ci].function.upvalue_count - 1 :
                /\ Chained(vm.compilers, ci, i)
                /\ i # j => Refers(vm.compilers, ci, i) # Refers(vm.compilers, ci, j)
    /\ ret.op = "named_variable" =>
          IF Declared(shadow.scopes[ret.compiler], ret.name) # {}
          THEN vm.code = <<Op.OP_GET_LOCAL,
                           Greatest(Declared(shadow.scopes[ret.compiler], ret.name))>>
          ELSE IF Owner(shadow, ret.name) = 0
          THEN vm.code = <<Op.OP_GET_GLOBAL, 0>>
          ELSE /\ Len(vm.code) = 2 /\ vm.code[1] = Op.OP_GET_UPVALUE
               /\ vm.code[2] < current_compiler(vm).function.upvalue_count
               /\ Refers(vm.compilers, ret.compiler, vm.code[2])
                     = <<shadow.open[Owner(shadow, ret.name)],
                         Greatest(Declared(shadow.scopes[shadow.open[Owner(shadow, ret.name)]],
                                           ret.name))>>
               /\ current_compiler(vm).upvalues[vm.code[2] + 1].val.is_local
                     <=> Owner(shadow, ret.name) = Len(shadow.open) - 1
               /\ current_compiler(vm).function.upvalue_count
                     = ret.upvalue_count + (IF vm.code[2] = ret.upvalue_count THEN 1 ELSE 0)
    /\ ret.op = "function" =>
          \* NIL, RETURN, CLOSURE and its constant, the pairs, and the
          \* DEFINE_GLOBAL of a function of the top level
          Len(vm.code) = 4 + 2 * Cardinality(UpvalueEntries(vm.compilers[ret.compiler]))
                           + (IF current_compiler(vm).scope_depth = 0 THEN 2 ELSE 0)

\* a second use of a variable of a function further out: the index emitted
\* is one the function had, of an entry with is_local false
C39_ChainedAgain ==
    /\ ret.op = "named_variable" /\ ~vm.had_error
    /\ Len(vm.code) = 2 /\ vm.code[1] = Op.OP_GET_UPVALUE
    /\ vm.code[2] < ret.upvalue_count
    /\ ~current_compiler(vm).upvalues[vm.code[2] + 1].val.is_local
    /\ Owner(shadow, ret.name) = Len(shadow.open) - 2

====
